---- MODULE Spec2Model ----
(***************************************************************************)
(* Book cabinet control core: motor driver, sensor filter, motion          *)
(* algorithms (INIT / TAKE / GIVE) and the transaction services that run   *)
(* them.  Every coroutine is modelled between its suspension points        *)
(* (await asyncio.sleep): the code between two awaits is one atomic step.  *)
(***************************************************************************)
EXTENDS Integers, Sequences, FiniteSets, TLC

\* ------------------------------------------------------------------ bounds
\* Concurrent callers (HTTP / WebSocket request handlers on one event loop).
NumTasks == 2
Tasks == 1..NumTasks

\* ------------------------------------------------------- program constants
SENSOR_THRESHOLD_HIGH == 98
SENSOR_THRESHOLD_LOW == 95
SENSOR_DEBOUNCE == 5
HOME_STEP == 100
MAX_DIAGONAL_STEP == 500
WAYPOINT_SPACING == 2000

Sensors == {"x_begin", "x_end", "y_begin", "y_end", "tray_begin", "tray_end"}

VARIABLES
    mock,              \* MOCK_MODE, fixed at start-up
    is_moving,         \* Motors.is_moving
    position,          \* Motors.position: [x, y, tray]
    dir,               \* direction lines [a, b, tray] as last written
    mv,                \* per caller: the motor move it is suspended in, or NoMove
    ret,               \* per caller: what its last direct motor call returned
    stop_inflight,     \* per caller: Motors.stop() ran while its move was in flight
    alg_state,         \* Algorithms.state
    current_operation, \* Algorithms.current_operation
    stop_requested,    \* Algorithms._stop_requested
    stop_sticky,       \* history: stop() was called and no init_home began since
    filt,              \* Sensors._state / _pending / _counter per sensor
    lock,              \* Servos.states
    shutter,           \* Shutters.states
    task,              \* per caller: the transaction and algorithm it is running
    started,           \* requests accepted so far
    tray_at,           \* where the tray physically is: "begin", "mid" or "end"
    books,             \* table books, by RFID
    cells,             \* table cells, by id
    dbt,               \* per caller: the service call it is in, with its locals
    remote,            \* the library server: exemplar status and loan per RFID
    trail,             \* history: the calls begun and ended, in order
    cal,               \* the calibration: stored document, file, caches, last call
    unit,              \* a function of the helpers called on its own: arguments, result
    probe,             \* history per sensor: the class of its last reads and their run
    hist,              \* history per book: the statuses its row has left
    gpio,              \* GPIOManager: the level of each output pin, the pigpio link
    reader             \* UnifiedCardReader: _running, availability, the polling loops

dbVars == <<books, cells, dbt, remote, trail, hist>>

\* What the mechanics never write.
\* The peripherals outside the motion model.
periVars == <<gpio, reader>>

hostVars == <<mock, dbVars, cal, unit, probe, periVars>>

\* What neither the services' bookkeeping nor the calibration writes.
motionVars == <<is_moving, position, dir, mv, ret, stop_inflight, alg_state,
                current_operation, stop_requested, stop_sticky, filt, lock, shutter,
                task, started, tray_at>>

\* What the services' bookkeeping never writes.
mechVars == <<cal, unit, probe, periVars, motionVars>>

motorVars == <<hostVars, is_moving, position, dir, mv, ret, stop_inflight>>
algVars == <<alg_state, current_operation, stop_requested, stop_sticky, filt, lock,
             shutter, task, started, tray_at>>
vars == <<hostVars, is_moving, position, dir, mv, ret, stop_inflight, alg_state,
          current_operation, stop_requested, stop_sticky, filt, lock, shutter, task,
          started, tray_at>>

\* ------------------------------------------------------------ motor driver
\* Targets a direct caller (POST /api/move, the WebSocket "motor" verb) asks for.
XYTargets == {0, 100}

Max2(a, b) == IF a >= b THEN a ELSE b
Abs(a) == IF a >= 0 THEN a ELSE -a

\* move_xy: steps_a = dx + dy, steps_b = -dx + dy; dir = 1 if steps > 0 else 0
StepsA(dx, dy) == dx + dy
StepsB(dx, dy) == (-dx) + dy
DirOf(steps) == IF steps > 0 THEN 1 ELSE 0

\* The guard at the head of move_xy and move_tray.
MotorBusy == is_moving

\* move_xy up to its first await: direction lines written, is_moving set.
NoMove == [kind |-> "none", x |-> 0, y |-> 0, tray |-> 0]
XYMove(tx, ty) == [kind |-> "xy", x |-> tx, y |-> ty, tray |-> 0]
TrayMove(ext) == [kind |-> "tray", x |-> 0, y |-> 0, tray |-> IF ext THEN 1 ELSE 0]

DirAfterXY(pos, tx, ty) ==
    [dir EXCEPT !.a = DirOf(StepsA(tx - pos.x, ty - pos.y)),
                !.b = DirOf(StepsB(tx - pos.x, ty - pos.y))]

DirAfterTray(ext) == [dir EXCEPT !.tray = IF ext THEN 1 ELSE 0]

\* position written after the pulse loop of the move m.
PositionAfter(m) ==
    IF m.kind = "xy" THEN [position EXCEPT !.x = m.x, !.y = m.y]
    ELSE [position EXCEPT !.tray = m.tray]

\* Motors.move_xy called directly, up to its first suspension.
MoveXYCall(t, tx, ty) ==
    /\ mv[t] = NoMove
    /\ ~task[t].run
    /\ IF MotorBusy
       THEN /\ ret' = [ret EXCEPT ![t] = "busy"]
            /\ UNCHANGED <<is_moving, position, dir, mv, stop_inflight>>
       ELSE /\ is_moving' = TRUE
            /\ dir' = DirAfterXY(position, tx, ty)
            /\ mv' = [mv EXCEPT ![t] = XYMove(tx, ty)]
            /\ ret' = [ret EXCEPT ![t] = "none"]
            /\ stop_inflight' = [stop_inflight EXCEPT ![t] = FALSE]
            /\ UNCHANGED position
    /\ UNCHANGED <<hostVars, algVars>>

\* Motors.extend_tray / retract_tray called directly, up to the first suspension.
MoveTrayCall(t, ext) ==
    /\ mv[t] = NoMove
    /\ ~task[t].run
    /\ IF MotorBusy
       THEN /\ ret' = [ret EXCEPT ![t] = "busy"]
            /\ UNCHANGED <<is_moving, position, dir, mv, stop_inflight>>
       ELSE /\ is_moving' = TRUE
            /\ dir' = DirAfterTray(ext)
            /\ mv' = [mv EXCEPT ![t] = TrayMove(ext)]
            /\ ret' = [ret EXCEPT ![t] = "none"]
            /\ stop_inflight' = [stop_inflight EXCEPT ![t] = FALSE]
            /\ UNCHANGED position
    /\ UNCHANGED <<hostVars, algVars>>

\* The pulse loop has run out: position written, True returned, the finally
\* clause clears is_moving.  Nothing in the loop reads is_moving.
MoveReturn(t) ==
    /\ mv[t] # NoMove
    /\ ~task[t].run
    /\ position' = PositionAfter(mv[t])
    /\ is_moving' = FALSE
    /\ mv' = [mv EXCEPT ![t] = NoMove]
    /\ ret' = [ret EXCEPT ![t] = "true"]
    /\ UNCHANGED <<hostVars, dir, stop_inflight, algVars>>

\* Motors.stop(): clears is_moving and drives the step lines LOW.
StopInflightAfterStop == [t \in Tasks |-> stop_inflight[t] \/ mv[t] # NoMove]

MotorsStop ==
    /\ is_moving' = FALSE
    /\ stop_inflight' = StopInflightAfterStop
    /\ UNCHANGED <<hostVars, position, dir, mv, ret, algVars>>

\* ------------------------------------------------------------ sensor filter
\* Raw percentages a read can return outside mock mode: a solid LOW, a floating
\* open slot (30-70 % HIGH) and a closed slot held HIGH by the pull-up.
Percents == {0, 50, 100}

\* Sensors._read_percent: in mock mode 100 if the pin is set else 0; every
\* input pin is set by setup_input(pull_up=True) and nothing clears it.
RawPercents == IF mock THEN {100} ELSE Percents

\* The tray switches read by where the tray is: the slot of tray_begin is
\* closed (pulled HIGH) with the tray fully back, that of tray_end with the
\* tray fully out; an open slot floats.
TrayRead(at, sensor) ==
    IF mock THEN 100
    ELSE IF (sensor = "tray_begin" /\ at = "begin") \/ (sensor = "tray_end" /\ at = "end")
    THEN 100
    ELSE 50

\* Where a tray drive can leave the tray: a full travel reaches the limit or
\* stalls on the way, a counted travel leaves the limit it started from.
\* Mock mode drives no hardware.
TrayAfter(at, ext, full) ==
    IF mock THEN {at}
    ELSE IF full THEN {IF ext THEN "end" ELSE "begin", at}
    ELSE IF ext THEN (IF at = "begin" THEN {"mid"} ELSE {at, "end"})
    ELSE (IF at = "end" THEN {"mid"} ELSE {at, "begin"})

BoolStr(b) == IF b THEN "True" ELSE "False"

\* Sensors._update_state on one sensor's filter record fs.  The counter is
\* only ever compared with SENSOR_DEBOUNCE, so it is kept saturated there.
Desired(fs, percent) ==
    IF percent >= SENSOR_THRESHOLD_HIGH THEN TRUE
    ELSE IF percent <= SENSOR_THRESHOLD_LOW THEN FALSE
    ELSE fs.state

\* _update_state as it would be without the debounce counter.
UpdateStateUndebounced(fs, percent) ==
    [state |-> Desired(fs, percent), pending |-> BoolStr(Desired(fs, percent)),
     counter |-> 1]

UpdateState(fs, percent) ==
    LET desired == Desired(fs, percent)
        cnt == IF BoolStr(desired) = fs.pending
               THEN (IF fs.counter < SENSOR_DEBOUNCE THEN fs.counter + 1 ELSE fs.counter)
               ELSE 1
    IN  [state |-> IF cnt >= SENSOR_DEBOUNCE /\ fs.state # desired
                   THEN desired ELSE fs.state,
         pending |-> BoolStr(desired),
         counter |-> cnt]

\* Sensors.is_triggered(sensor) with the raw read p: the filter after the call.
IsTriggered(f, sensor, p) == [f EXCEPT ![sensor] = UpdateState(f[sensor], p)]

\* Algorithms._check_tray_sensors: is_tray_retracted() then is_tray_extended().
CheckTraySensors(f, at) ==
    IsTriggered(IsTriggered(f, "tray_begin", TrayRead(at, "tray_begin")),
                "tray_end", TrayRead(at, "tray_end"))

\* Truthiness of a raw read as the algorithms test it (all_sensors.get(name),
\* "not sensors.read(name)"): any non-zero percentage.
Truthy(p) == p # 0

\* -------------------------------------------------------------- path planner
\* The calibration in force (calibration.json: positions.x, and positions.y
\* as a multiple of the shelf pitch), in motor steps: three columns and a
\* pitch scaled down from the default data, far enough apart for plan_path
\* to take both its direct and its L-shaped branch.
PositionsX == <<0, 300, 600>>
Y_PITCH == 30
PositionsY(y) == y * Y_PITCH

\* CABINET['window']
WindowCell == <<"FRONT", 1, 9>>

\* PathPlanner.get_cell_position
GetCellPosition(c) == <<PositionsX[c[2] + 1], PositionsY(c[3])>>

GetWindowPosition == GetCellPosition(WindowCell)

\* int() of the quotient n / d (d > 0): truncation toward zero.
Trunc(n, d) == IF n >= 0 THEN n \div d ELSE -((-n) \div d)

\* plan_path as it would be without its final waypoint: the Y leg alone.
PlanPathYLegOnly(start, end) == << <<start[1], end[2]>> >>

\* PathPlanner.plan_path
PlanPath(start, end) ==
    LET sx == start[1]
        sy == start[2]
        ex == end[1]
        ey == end[2]
        dx == Abs(ex - sx)
        dy == Abs(ey - sy)
        ycount == Max2(1, dy \div WAYPOINT_SPACING)
        xcount == Max2(1, dx \div WAYPOINT_SPACING)
        yleg == IF dy > MAX_DIAGONAL_STEP
                THEN [i \in 1..(ycount - 1) |->
                        <<sx, Trunc(sy * ycount + (ey - sy) * i, ycount)>>]
                     \o << <<sx, ey>> >>
                ELSE << >>
        xleg == IF dx > MAX_DIAGONAL_STEP
                THEN [i \in 1..(xcount - 1) |->
                        <<Trunc(sx * xcount + (ex - sx) * i, xcount), ey>>]
                ELSE << >>
    IN  IF dx < MAX_DIAGONAL_STEP /\ dy < MAX_DIAGONAL_STEP
        THEN << end >>
        ELSE yleg \o xleg \o << end >>

\* --------------------------------------------------------- motion algorithms
\* The cells the modelled requests address.
CellsUsed == {<<"FRONT", 0, 0>>, <<"BACK", 2, 19>>}

\* The choreography of each algorithm, one entry per awaited call, in the
\* order of the source.  arg: for a tray phase the calibrated count it passes
\* ("full" = no count), for a move the destination, for a latch the motion,
\* for a shutter <<which, motion>>.
I(op, arg) == [op |-> op, arg |-> arg]

TakeProgram ==
    << I("guard_retract", "full"),
       I("move", "cell"),
       I("extend", "extend1"),
       I("lock", "close"),
       I("retract", "retract"),
       I("lock", "open"),
       I("extend", "extend2"),
       I("lock", "close"),
       I("retract", "full"),
       I("move", "window"),
       I("shutter", "inner_open"),
       I("extend", "full"),
       I("shutter", "outer_open") >>

GiveProgram ==
    << I("shutter", "outer_close"),
       I("retract", "full"),
       I("shutter", "inner_close"),
       I("move", "cell"),
       I("extend", "extend2"),
       I("lock", "open"),
       I("retract", "retract"),
       I("lock", "close"),
       I("extend", "extend1"),
       I("lock", "open"),
       I("retract", "full") >>

InitProgram ==
    << I("home_tray", "full"),
       I("home", "x"),
       I("home", "y") >>

Program(name) ==
    IF name = "TAKE" THEN TakeProgram
    ELSE IF name = "GIVE" THEN GiveProgram
    ELSE InitProgram

\* What Algorithms.state is set to on entry and on a True return.
EntryState(name) == IF name = "INIT" THEN "homing" ELSE "busy"
ExitState(name) == IF name = "TAKE" THEN "waiting_user" ELSE "idle"

\* Per caller: the transaction it is in (txn, tpc), the algorithm it runs
\* (alg, run, pc, sub and the locals path / cur / target / cell), what it
\* returned, and what was observed of the run.  beat is the parity of the
\* homing increments driven so far.
NoRej == [sensor |-> "None", percent |-> -1, phase |-> "none"]
NoHomeRead == [x |-> -1, y |-> -1]

IdleTask ==
    [txn |-> "none", tpc |-> "idle", alg |-> "none", run |-> FALSE, pc |-> 0,
     sub |-> "start", path |-> << >>, cur |-> <<0, 0>>, target |-> <<0, 0>>,
     cell |-> <<"FRONT", 0, 0>>, result |-> "none", algret |-> "none",
     emitted |-> {}, logged |-> {}, stop_during |-> FALSE,
     tray_failed |-> FALSE, acted_after |-> FALSE, motion_failed |-> FALSE,
     home_read |-> NoHomeRead, rej |-> NoRej, beat |-> 0]

\* The first lines of init_home / take_shelf / give_shelf, up to the first
\* await: the record of the caller ...
BeginAlg(r, name, c) ==
    [r EXCEPT !.alg = name, !.run = TRUE, !.pc = 1, !.sub = "start",
              !.path = << >>, !.cell = c, !.algret = "none", !.emitted = {},
              !.stop_during = FALSE, !.tray_failed = FALSE, !.acted_after = FALSE,
              !.home_read = NoHomeRead, !.rej = NoRej]

\* ... and the stop flag: every algorithm clears _stop_requested on entry.
StopFlagOnEntry(name) == FALSE

\* The code of the transaction that runs, without suspension, once the
\* algorithm it awaited has returned ok.
\*   issue / extract after TAKE: failure returned at once, else wait_for_user
\*   issue after GIVE (return value dropped): rows updated, remote issue awaited
\*   extract after GIVE (return value dropped): rows updated, INFO logged
\*   return / load after GIVE: failure returned at once, else rows updated
Returned(r, ok) ==
    LET r1 == [r EXCEPT !.run = FALSE, !.pc = 0, !.sub = "start", !.path = << >>,
                        !.algret = IF ok THEN "true" ELSE "false",
                        !.motion_failed = @ \/ (~ok /\ r.alg # "INIT")]
        fail == [r1 EXCEPT !.tpc = "done", !.result = "fail"]
    IN  IF r.alg = "TAKE"
        THEN (IF ok THEN [r1 EXCEPT !.tpc = "wait"] ELSE fail)
        ELSE IF r.alg = "INIT"
        THEN [r1 EXCEPT !.tpc = "done", !.result = IF ok THEN "ok" ELSE "fail"]
        ELSE IF r.txn = "issue" THEN [r1 EXCEPT !.tpc = "irbis"]
        ELSE IF r.txn = "extract"
        THEN [r1 EXCEPT !.tpc = "done", !.result = "ok", !.logged = @ \cup {"INFO"}]
        ELSE IF r.txn = "return"
        THEN (IF ok THEN [r1 EXCEPT !.tpc = "irbis"] ELSE fail)
        ELSE (IF ok THEN [r1 EXCEPT !.tpc = "done", !.result = "ok",
                                    !.logged = @ \cup {"INFO"}]
              ELSE fail)

Last(r) == r.pc = Len(Program(r.alg))

\* The instruction is over and the algorithm goes on: to the next
\* instruction, or off its end (state set, True returned).
Advance(r) ==
    IF Last(r) THEN Returned(r, TRUE)
    ELSE [r EXCEPT !.pc = @ + 1, !.sub = "start", !.path = << >>]

StateAfter(r) == IF Last(r) THEN ExitState(r.alg) ELSE alg_state

Emit(r, code) == [r EXCEPT !.emitted = @ \cup {code}]

\* History: the instruction acted on the hardware (a drive, a latch, a shutter).
Acted(r) == [r EXCEPT !.acted_after = @ \/ r.tray_failed]

TrayFailed(r, code) == [Emit(r, code) EXCEPT !.tray_failed = TRUE]

Instr0(r) == Program(r.alg)[r.pc]
Instr(t) == Instr0(task[t])

Running(t, ops) ==
    /\ task[t].run
    /\ Instr(t).op \in ops

TrayOps == {"retract", "extend", "guard_retract", "home_tray"}

TraySensor(ext) == IF ext THEN "tray_end" ELSE "tray_begin"

\* Error codes of _safe_tray_extend / _safe_tray_retract.
DriveFailCode(ext) == IF ext THEN 20 ELSE 22
LimitFailCode(ext) == IF ext THEN 21 ELSE 23

\* Motors.stop() as the algorithms call it: the moves it hits in flight.
StopHits(t) == [u \in Tasks |-> stop_inflight[u] \/ (u # t /\ mv[u] # NoMove)]

\* A tray phase up to its first await.
\*   guard_retract: "if not sensors.is_tray_retracted() or MOCK_MODE" (take_shelf)
\*   home_tray:     "if not tray_status['retracted']"                 (init_home)
\* then _safe_tray_retract / _safe_tray_extend: the stop flag (False, nothing
\* emitted), the initial sensor check, the drive call (busy: 20 / 22).
\* The caller drops the return value and goes on.
StepTrayBegin(t) ==
    /\ Running(t, TrayOps)
    /\ task[t].sub = "start"
    /\ LET r == task[t]
           op == Instr(t).op
           ext == (op = "extend")
           full == (Instr(t).arg = "full")
       IN    LET f0 == IF op = "guard_retract"
                       THEN IsTriggered(filt, "tray_begin", TrayRead(tray_at, "tray_begin"))
                       ELSE IF op = "home_tray" THEN CheckTraySensors(filt, tray_at)
                       ELSE filt
                 enter == IF op = "guard_retract" THEN (~f0["tray_begin"].state \/ mock)
                          ELSE IF op = "home_tray" THEN ~f0["tray_begin"].state
                          ELSE TRUE
                 f1 == IF mock THEN f0 ELSE CheckTraySensors(f0, tray_at)
             IN  IF ~enter \/ stop_requested
                 THEN /\ filt' = f0
                      /\ task' = [task EXCEPT ![t] = Advance(r)]
                      /\ alg_state' = StateAfter(r)
                      /\ UNCHANGED <<is_moving, dir, mv>>
                 ELSE IF ~mock /\ f1[TraySensor(ext)].state /\ full
                 THEN /\ filt' = f1
                      /\ task' = [task EXCEPT ![t] = Advance(r)]
                      /\ alg_state' = StateAfter(r)
                      /\ UNCHANGED <<is_moving, dir, mv>>
                 ELSE IF MotorBusy
                 THEN /\ filt' = f1
                      /\ task' = [task EXCEPT ![t] = Advance(TrayFailed(r, DriveFailCode(ext)))]
                      /\ alg_state' = StateAfter(r)
                      /\ UNCHANGED <<is_moving, dir, mv>>
                 ELSE /\ filt' = f1
                      /\ is_moving' = TRUE
                      /\ dir' = DirAfterTray(ext)
                      /\ mv' = [mv EXCEPT ![t] = TrayMove(ext)]
                      /\ task' = [task EXCEPT ![t] = [Acted(r) EXCEPT !.sub = "moving"]]
                      /\ UNCHANGED alg_state
    /\ UNCHANGED <<hostVars, position, ret, stop_inflight, current_operation,
                   stop_requested, stop_sticky, lock, shutter, started, tray_at>>

\* The tray drive returns (position written, is_moving cleared); outside mock
\* mode the phase sleeps 0.3 s and checks the limit: 21 / 23 when a full
\* travel did not trigger it.
StepTrayEnd(t) ==
    /\ Running(t, TrayOps)
    /\ task[t].sub = "moving"
    /\ LET r == task[t]
           ext == (Instr(t).op = "extend")
           full == (Instr(t).arg = "full")
       IN  \E at \in TrayAfter(tray_at, ext, full) :
             LET f1 == IF mock THEN filt ELSE CheckTraySensors(filt, at)
                 missed == ~mock /\ full /\ ~f1[TraySensor(ext)].state
             IN  /\ tray_at' = at
                 /\ filt' = f1
                 /\ task' = [task EXCEPT ![t] =
                        Advance(IF missed THEN TrayFailed(r, LimitFailCode(ext)) ELSE r)]
                 /\ alg_state' = StateAfter(r)
    /\ position' = PositionAfter(mv[t])
    /\ is_moving' = FALSE
    /\ mv' = [mv EXCEPT ![t] = NoMove]
    /\ UNCHANGED <<hostVars, dir, ret, stop_inflight, current_operation,
                   stop_requested, stop_sticky, lock, shutter, started>>

\* Servos.close_lock / open_lock on the latch of the cell's row.
LockOf(c) == IF c[1] = "FRONT" THEN "lock1" ELSE "lock2"

StepLock(t) ==
    /\ Running(t, {"lock"})
    /\ lock' = [lock EXCEPT ![LockOf(task[t].cell)] =
                  IF Instr(t).arg = "open" THEN "open" ELSE "closed"]
    /\ task' = [task EXCEPT ![t] = Advance(Acted(task[t]))]
    /\ alg_state' = StateAfter(task[t])
    /\ UNCHANGED <<motorVars, current_operation, stop_requested, stop_sticky,
                   filt, shutter, started, tray_at>>

\* Shutters.open_shutter / close_shutter
ShutterOf(arg) == IF arg \in {"inner_open", "inner_close"} THEN "inner" ELSE "outer"

StepShutter(t) ==
    /\ Running(t, {"shutter"})
    /\ shutter' = [shutter EXCEPT ![ShutterOf(Instr(t).arg)] =
                     IF Instr(t).arg \in {"inner_open", "outer_open"}
                     THEN "open" ELSE "closed"]
    /\ task' = [task EXCEPT ![t] = Advance(Acted(task[t]))]
    /\ alg_state' = StateAfter(task[t])
    /\ UNCHANGED <<motorVars, current_operation, stop_requested, stop_sticky,
                   filt, lock, started, tray_at>>

\* ------------------------------------------------------ safe-move supervisor
XYSensors == {"x_begin", "x_end", "y_begin", "y_end"}

\* The check before a waypoint: the sensor the move is rejected on, or "None".
PreCheck(cur, point, rd) ==
    IF point[1] > cur[1] /\ Truthy(rd["x_end"]) THEN "x_end"
    ELSE IF point[1] < cur[1] /\ Truthy(rd["x_begin"]) THEN "x_begin"
    ELSE IF point[2] > cur[2] /\ Truthy(rd["y_end"]) THEN "y_end"
    ELSE IF point[2] < cur[2] /\ Truthy(rd["y_begin"]) THEN "y_begin"
    ELSE "None"

\* The check after a segment.
PostCheck(point, target, rd) ==
    IF Truthy(rd["x_end"]) /\ point[1] < target[1] THEN "x_end"
    ELSE IF Truthy(rd["x_begin"]) /\ point[1] > 0 THEN "x_begin"
    ELSE IF Truthy(rd["y_end"]) /\ point[2] < target[2] THEN "y_end"
    ELSE IF Truthy(rd["y_begin"]) /\ point[2] > 0 THEN "y_begin"
    ELSE "None"

\* sensors.read_all() as the supervisor uses it: one raw percentage per switch.
\* In mock mode the supervisor does not read.
\* At most one switch reads non-zero at a time.
AllLow == [s \in XYSensors |-> 0]
RealReadings ==
    {AllLow} \cup {[AllLow EXCEPT ![s] = p] : s \in XYSensors, p \in Percents \ {0}}
Readings == IF mock THEN {AllLow} ELSE RealReadings

MoveTarget(r) == IF Instr0(r).arg = "window" THEN GetWindowPosition ELSE GetCellPosition(r.cell)

\* _safe_move_xy from one suspension to the next.  On entry (sub = "start"):
\* the stop flag (False returned, nothing emitted), the path planned from the
\* driver's position.  On the return of a segment's move_xy (sub = "moving"):
\* the check after the segment.  Then, for the next waypoint: the stop flag
\* (code 11), the check before the waypoint (code 10), move_xy (busy: code 12).
\* A False return of _safe_move_xy is a False return of the algorithm.
StepMove(t) ==
    /\ Running(t, {"move"})
    /\ LET r == task[t]
           arriving == (r.sub = "moving")
           posNow == IF arriving THEN PositionAfter(mv[t]) ELSE position
           point0 == <<posNow.x, posNow.y>>
           target == IF arriving THEN r.target ELSE MoveTarget(r)
           path == IF arriving THEN r.path ELSE PlanPath(point0, target)
           mvClear == [mv EXCEPT ![t] = NoMove]
           Fail(rec) ==
               /\ task' = [task EXCEPT ![t] = Returned(rec, FALSE)]
               /\ position' = posNow
               /\ mv' = mvClear
               /\ UNCHANGED <<dir, alg_state>>
       IN  IF ~arriving /\ stop_requested
           THEN /\ Fail(r)
                /\ UNCHANGED <<is_moving, stop_inflight>>
           ELSE \E rd1 \in Readings :
             LET post == IF arriving /\ ~mock THEN PostCheck(point0, target, rd1) ELSE "None"
             IN  IF post # "None"
                 THEN /\ Fail([Emit(r, 10) EXCEPT
                                 !.rej = [sensor |-> post, percent |-> rd1[post],
                                          phase |-> "post"]])
                      /\ is_moving' = FALSE
                      /\ stop_inflight' = StopHits(t)
                 ELSE IF path = << >>
                 THEN /\ task' = [task EXCEPT ![t] = Advance(r)]
                      /\ alg_state' = StateAfter(r)
                      /\ position' = posNow
                      /\ mv' = mvClear
                      /\ is_moving' = FALSE
                      /\ UNCHANGED <<dir, stop_inflight>>
                 ELSE IF stop_requested
                 THEN /\ Fail(Emit(r, 11))
                      /\ is_moving' = FALSE
                      /\ stop_inflight' = StopHits(t)
                 ELSE \E rd2 \in Readings :
                   LET point == Head(path)
                       pre == IF mock THEN "None" ELSE PreCheck(point0, point, rd2)
                       busy == ~arriving /\ MotorBusy
                   IN  IF pre # "None"
                       THEN /\ Fail([Emit(r, 10) EXCEPT
                                       !.rej = [sensor |-> pre, percent |-> rd2[pre],
                                                phase |-> "pre"]])
                            /\ is_moving' = FALSE
                            /\ stop_inflight' = StopHits(t)
                       ELSE IF busy
                       THEN /\ Fail(Emit(r, 12))
                            /\ UNCHANGED <<is_moving, stop_inflight>>
                       ELSE /\ is_moving' = TRUE
                            /\ dir' = DirAfterXY(posNow, point[1], point[2])
                            /\ mv' = [mv EXCEPT ![t] = XYMove(point[1], point[2])]
                            /\ position' = posNow
                            /\ task' = [task EXCEPT ![t] =
                                   [Acted(r) EXCEPT !.sub = "moving", !.path = Tail(path),
                                                    !.cur = point0, !.target = target]]
                            /\ UNCHANGED <<alg_state, stop_inflight>>
    /\ UNCHANGED <<hostVars, ret, current_operation, stop_requested, stop_sticky,
                   filt, lock, shutter, started, tray_at>>

\* ------------------------------------------------------------------- homing
\* The recorded coordinate is followed down to MaxUnderrun increments below
\* zero; the homing loop never reads it, so lower values behave alike.
MaxUnderrun == 2
HomeFloor == -(MaxUnderrun * HOME_STEP)
HomeTarget(v) == IF v - HOME_STEP < HomeFloor THEN v ELSE v - HOME_STEP

\* The loop test of init_home: "while not sensors.read(<axis>_begin)".
HomeLoopExits(p) == Truthy(p)

Latched(pos, axis) == IF axis = "x" THEN [pos EXCEPT !.x = 0] ELSE [pos EXCEPT !.y = 0]

\* One axis of init_home from one suspension to the next.  Mock mode: sleep,
\* then the coordinate is zeroed.  Otherwise the loop: the raw read; on exit
\* the coordinate is zeroed; else the stop flag (False returned, nothing
\* emitted); else move_xy by one increment, its return value dropped.  When
\* the driver is busy move_xy returns at once and the loop reads again.
StepHome(t) ==
    /\ Running(t, {"home"})
    /\ LET r == task[t]
           axis == Instr(t).arg
           arriving == (r.sub = "moving")
           posNow == IF arriving THEN PositionAfter(mv[t]) ELSE position
           movNow == IF arriving THEN FALSE ELSE is_moving
           mvClear == [mv EXCEPT ![t] = NoMove]
       IN  IF mock
           THEN /\ position' = Latched(posNow, axis)
                /\ task' = [task EXCEPT ![t] = Advance(r)]
                /\ alg_state' = StateAfter(r)
                /\ UNCHANGED <<is_moving, dir, mv>>
           ELSE \E p \in RawPercents :
                  IF HomeLoopExits(p)
                  THEN /\ position' = Latched(posNow, axis)
                       /\ task' = [task EXCEPT ![t] =
                              Advance([r EXCEPT !.home_read[axis] = p])]
                       /\ alg_state' = StateAfter(r)
                       /\ is_moving' = movNow
                       /\ mv' = mvClear
                       /\ UNCHANGED dir
                  ELSE IF stop_requested
                  THEN /\ position' = posNow
                       /\ task' = [task EXCEPT ![t] = Returned(r, FALSE)]
                       /\ is_moving' = movNow
                       /\ mv' = mvClear
                       /\ UNCHANGED <<dir, alg_state>>
                  ELSE IF movNow
                  THEN UNCHANGED <<position, task, is_moving, mv, dir, alg_state>>
                  ELSE /\ position' = posNow
                       /\ is_moving' = TRUE
                       /\ dir' = IF axis = "x"
                                 THEN DirAfterXY(posNow, HomeTarget(posNow.x), posNow.y)
                                 ELSE DirAfterXY(posNow, posNow.x, HomeTarget(posNow.y))
                       /\ mv' = [mv EXCEPT ![t] =
                              IF axis = "x" THEN XYMove(HomeTarget(posNow.x), posNow.y)
                              ELSE XYMove(posNow.x, HomeTarget(posNow.y))]
                       /\ task' = [task EXCEPT ![t] =
                              [Acted(r) EXCEPT !.sub = "moving", !.beat = 1 - @]]
                       /\ UNCHANGED alg_state
    /\ UNCHANGED <<hostVars, ret, stop_inflight, current_operation, stop_requested,
                   stop_sticky, filt, lock, shutter, started, tray_at>>

\* ------------------------------------------------------------- transactions
\* Requests one behaviour follows.
MaxRequests == 2

Free(t) == task[t].tpc \in {"idle", "done"} /\ mv[t] = NoMove /\ started < MaxRequests

NewTxn(kind) == [IdleTask EXCEPT !.txn = kind, !.tpc = "alg"]

\* Entry of an algorithm: the caller's record and Algorithms' own fields.
EnterAlg(t, r, name, c, inc) ==
    /\ task' = [task EXCEPT ![t] = BeginAlg(r, name, c)]
    /\ current_operation' = name
    /\ alg_state' = EntryState(name)
    /\ stop_requested' = StopFlagOnEntry(name)
    /\ stop_sticky' = IF name = "INIT" THEN FALSE ELSE stop_sticky
    /\ started' = started + inc
    /\ UNCHANGED <<motorVars, filt, lock, shutter, tray_at>>

\* IssueService.issue_book for a book found in cell c, up to take_shelf's
\* first await.
IssueStart(t, c) == Free(t) /\ EnterAlg(t, NewTxn("issue"), "TAKE", c, 1)

\* UnloadService.extract_book for the occupied cell c.
ExtractStart(t, c) == Free(t) /\ EnterAlg(t, NewTxn("extract"), "TAKE", c, 1)

\* ReturnService.return_book with c the first empty cell.
ReturnStart(t, c) == Free(t) /\ EnterAlg(t, NewTxn("return"), "GIVE", c, 1)

\* LoadService.load_book into the empty cell c: the remote verification is
\* awaited first and may log a WARNING of its own.
LoadStart(t, c) ==
    /\ Free(t)
    /\ task' = [task EXCEPT ![t] = [NewTxn("load") EXCEPT !.tpc = "verify", !.cell = c]]
    /\ started' = started + 1
    /\ UNCHANGED <<motorVars, alg_state, current_operation, stop_requested,
                   stop_sticky, filt, lock, shutter, tray_at>>

LoadVerified(t, warning) ==
    /\ task[t].tpc = "verify"
    /\ EnterAlg(t, [task[t] EXCEPT !.tpc = "alg",
                      !.logged = IF warning THEN @ \cup {"WARNING"} ELSE @],
                "GIVE", task[t].cell, 0)

\* POST /api/init and the WebSocket "home" command.
InitStart(t) == Free(t) /\ EnterAlg(t, NewTxn("init"), "INIT", task[t].cell, 1)

\* wait_for_user has slept out; issue_book / extract_book call give_shelf on
\* the same cell.
UserWaitDone(t) ==
    /\ task[t].tpc = "wait"
    /\ EnterAlg(t, [task[t] EXCEPT !.tpc = "alg"], "GIVE", task[t].cell, 0)

\* The remote issue / return workflow answers: a failure is logged as a
\* WARNING; the operation and an INFO entry are logged; success is returned.
IrbisDone(t, irbis_success) ==
    /\ task[t].tpc = "irbis"
    /\ task' = [task EXCEPT ![t] =
           [@ EXCEPT !.tpc = "done", !.result = "ok",
                     !.logged = @ \cup (IF irbis_success THEN {"INFO"}
                                        ELSE {"WARNING", "INFO"})]]
    /\ UNCHANGED <<motorVars, alg_state, current_operation, stop_requested,
                   stop_sticky, filt, lock, shutter, started, tray_at>>

\* Algorithms.stop(): POST /api/stop.
StopDuring == [t \in Tasks |-> [task[t] EXCEPT !.stop_during = @ \/ task[t].run]]

AlgStop ==
    /\ stop_requested' = TRUE
    /\ stop_sticky' = TRUE
    /\ is_moving' = FALSE
    /\ stop_inflight' = StopInflightAfterStop
    /\ alg_state' = "stopped"
    /\ task' = StopDuring
    /\ UNCHANGED <<hostVars, position, dir, mv, ret, current_operation, filt, lock,
                   shutter, started, tray_at>>

\* ----------------------------------------------------------- local database
\* The books, readers and cells the modelled calls address.
Rfids == {"B1", "B2"}
Users == {"U1", "U2"}
NumCells == 3
CellIds == 1..NumCells

\* Service calls one behaviour follows.
MaxCalls == 2

\* A books row (exists = FALSE: no row with this RFID; cell 0: cell_id NULL)
\* and a cells row (book_rfid "": NULL).
NoBook == [exists |-> FALSE, status |-> "", cell |-> 0, reserved_by |-> "",
           issued_to |-> ""]
EmptyCell == [status |-> "empty", book_rfid |-> "", needs_extraction |-> FALSE,
              reserved_for |-> ""]

\* Database._init_cells: the last cell is blocked by the configuration, and
\* _init_mock_data puts the seeded book in the first empty cell.
InitCells ==
    [c \in CellIds |->
        IF c = 1 THEN [EmptyCell EXCEPT !.status = "occupied", !.book_rfid = "B1"]
        ELSE IF c = NumCells THEN [EmptyCell EXCEPT !.status = "blocked"]
        ELSE EmptyCell]

\* Database._init_mock_data: a seeded book is either reserved for a reader
\* or in the cabinet unreserved (res = "").
InitBooks(res) ==
    [b \in Rfids |->
        IF b = "B1"
        THEN [exists |-> TRUE,
              status |-> IF res = "" THEN "in_cabinet" ELSE "reserved",
              cell |-> 1, reserved_by |-> res, issued_to |-> ""]
        ELSE NoBook]

\* Database.find_empty_cell: the first row with status 'empty', 0 for None.
FindEmptyCell ==
    LET e == {c \in CellIds : cells[c].status = "empty"}
    IN  IF e = {} THEN 0 ELSE CHOOSE c \in e : \A d \in e : c <= d

\* Database.create_book: status 'in_cabinet', cell_id NULL.
CreateBook(b) ==
    [books EXCEPT ![b] = [NoBook EXCEPT !.exists = TRUE, !.status = "in_cabinet"]]

\* Per caller: the service call it is in (kind, pc), its arguments and the
\* rows it read (rfid, user, cell), what it returned and logged, and what was
\* observed of it: wrote (it changed a row), committed (it wrote the book
\* row and the cell row of the transaction), stale (it committed an issue of a
\* book that was issued by then), row_ok (the rows at its return are the ones
\* an issue leaves), irbis_ok (what the remote workflow answered).
IdleCall ==
    [kind |-> "none", pc |-> "idle", rfid |-> "", user |-> "", cell |-> 0,
     result |-> "none", logged |-> {}, wrote |-> FALSE, committed |-> FALSE,
     stale |-> FALSE, row_ok |-> FALSE, irbis_ok |-> FALSE, errors |-> FALSE]

Ev(e, r, ok) == [ev |-> e, kind |-> r.kind, rfid |-> r.rfid, ok |-> ok]

Begun == Len(SelectSeq(trail, LAMBDA e : e.ev = "begin"))

CallFree(t) == dbt[t].pc \in {"idle", "done"} /\ Begun < MaxCalls

\* The statuses each book row has left, after the write of this step.
Leaves ==
    hist' = [b \in Rfids |->
                IF books[b].exists /\ books'[b].status # books[b].status
                THEN hist[b] \cup {books[b].status} ELSE hist[b]]

\* The call begins and suspends at its first await with the locals r.
Suspend(t, r) ==
    /\ dbt' = [dbt EXCEPT ![t] = r]
    /\ trail' = IF dbt[t].pc \in {"idle", "done"}
                THEN Append(trail, Ev("begin", r, FALSE)) ELSE trail

\* The call returns res ("ok": success=True, "fail": success=False,
\* "error": an exception left the service).
Return(t, r, res) ==
    /\ dbt' = [dbt EXCEPT ![t] = [r EXCEPT !.pc = "done", !.result = res]]
    /\ trail' = (IF dbt[t].pc \in {"idle", "done"}
                 THEN Append(trail, Ev("begin", r, FALSE)) ELSE trail)
                \o << Ev("end", r, res = "ok") >>

InCall(t, kind, pc) == dbt[t].kind = kind /\ dbt[t].pc = pc

\* ------------------------------------------------------------ library server
\* One exemplar on the server: field 910^a (status) and the reader whose
\* field 40 holds an open loan of it ("" for none).
NoLoan == [status |-> "0", loan |-> ""]

\* IrbisClient.issue_book, w1 and w2 being what write_record answers for the
\* reader record and for the book record.
RemoteIssue(rem, u, w1, w2) ==
    IF rem.status = "1" THEN [ok |-> FALSE, rem |-> rem]
    ELSE IF rem.status \notin {"0", ""} THEN [ok |-> FALSE, rem |-> rem]
    ELSE IF ~w1 THEN [ok |-> FALSE, rem |-> rem]
    ELSE IF ~w2 THEN [ok |-> FALSE, rem |-> [rem EXCEPT !.loan = u]]
    ELSE [ok |-> TRUE, rem |-> [status |-> "1", loan |-> u]]

\* IrbisClient.return_book: the answer of the second write_record is dropped.
RemoteReturn(rem, w1, w2) ==
    IF rem.loan = "" THEN [ok |-> rem.status = "0", rem |-> rem]
    ELSE IF ~w1 THEN [ok |-> FALSE, rem |-> rem]
    ELSE [ok |-> TRUE,
          rem |-> [status |-> IF w2 THEN "0" ELSE rem.status, loan |-> ""]]

\* ------------------------------------------------------------------ issue_book
\* IssueService.issue_book up to its first await.
IssueBookBegin(t, b, u) ==
    /\ CallFree(t)
    /\ LET bk == books[b]
           r == [IdleCall EXCEPT !.kind = "issue", !.rfid = b, !.user = u]
       IN  IF ~bk.exists
           THEN Suspend(t, [r EXCEPT !.pc = "info"])
           ELSE IF \/ bk.status = "issued"
                   \/ (bk.reserved_by # "" /\ bk.reserved_by # u)
                   \/ bk.cell = 0
           THEN Return(t, r, "fail")
           ELSE Suspend(t, [r EXCEPT !.pc = "mech", !.cell = bk.cell])
    /\ UNCHANGED <<mock, mechVars, hist, books, cells, remote>>

\* get_book_info answered: the book is not in the cabinet either way.
IssueBookInfo(t) ==
    /\ InCall(t, "issue", "info")
    /\ Return(t, dbt[t], "fail")
    /\ UNCHANGED <<mock, mechVars, hist, books, cells, remote>>

\* take_shelf, wait_for_user and give_shelf are over (ok: take_shelf
\* succeeded); on success the rows are written, up to the await of the
\* library.
IssueBookMech(t, ok) ==
    /\ InCall(t, "issue", "mech")
    /\ LET r == dbt[t]
       IN  IF ~ok
           THEN /\ Return(t, r, "fail")
                /\ UNCHANGED <<books, cells, hist>>
           ELSE /\ books' = [books EXCEPT ![r.rfid] =
                                [@ EXCEPT !.status = "issued", !.issued_to = r.user,
                                          !.reserved_by = "", !.cell = 0]]
                /\ Leaves
                /\ cells' = [cells EXCEPT ![r.cell] =
                                [@ EXCEPT !.status = "empty", !.book_rfid = "",
                                          !.reserved_for = ""]]
                /\ Suspend(t, [r EXCEPT !.pc = "irbis", !.wrote = TRUE,
                                        !.committed = TRUE,
                                        !.stale = (books[r.rfid].status = "issued")])
    /\ UNCHANGED <<mock, mechVars, remote>>

\* issue_book as it would be with a rollback: a refusal of the library
\* undoes the local writes and fails the call.
IssueBookIrbisRollback(t, w1, w2) ==
    /\ InCall(t, "issue", "irbis")
    /\ LET r == dbt[t]
           a == RemoteIssue(remote[r.rfid], r.user, w1, w2)
       IN  /\ remote' = [remote EXCEPT ![r.rfid] = a.rem]
           /\ books' = IF a.ok THEN books
                       ELSE [books EXCEPT ![r.rfid] =
                               [@ EXCEPT !.status = "in_cabinet", !.issued_to = "",
                                         !.cell = r.cell]]
           /\ Leaves
           /\ cells' = IF a.ok THEN cells
                       ELSE [cells EXCEPT ![r.cell] =
                               [@ EXCEPT !.status = "occupied", !.book_rfid = r.rfid]]
           /\ Return(t, [r EXCEPT !.irbis_ok = a.ok, !.logged = {"INFO"}],
                     IF a.ok THEN "ok" ELSE "fail")
    /\ UNCHANGED <<mock, mechVars>>

\* irbis.issue_book answered; the call logs and returns success.
IssueBookIrbis(t, w1, w2) ==
    /\ InCall(t, "issue", "irbis")
    /\ LET r == dbt[t]
           a == RemoteIssue(remote[r.rfid], r.user, w1, w2)
       IN  /\ remote' = [remote EXCEPT ![r.rfid] = a.rem]
           /\ Return(t, [r EXCEPT !.irbis_ok = a.ok,
                                  !.logged = (IF a.ok THEN {} ELSE {"WARNING"})
                                             \cup {"INFO"},
                                  !.row_ok = /\ books[r.rfid].status = "issued"
                                             /\ books[r.rfid].issued_to = r.user
                                             /\ books[r.rfid].cell = 0
                                             /\ cells[r.cell].status = "empty"
                                             /\ cells[r.cell].book_rfid = ""],
                     "ok")
    /\ UNCHANGED <<mock, mechVars, hist, books, cells>>

\* ----------------------------------------------------------------- return_book
\* ReturnService.return_book up to its first await.
ReturnBookBegin(t, b) ==
    /\ CallFree(t)
    /\ LET r == [IdleCall EXCEPT !.kind = "return", !.rfid = b]
       IN  IF ~books[b].exists
           THEN Suspend(t, [r EXCEPT !.pc = "info"])
           ELSE IF FindEmptyCell = 0
           THEN Return(t, r, "fail")
           ELSE Suspend(t, [r EXCEPT !.pc = "mech", !.cell = FindEmptyCell])
    /\ UNCHANGED <<mock, mechVars, hist, books, cells, remote>>

\* get_book_info answered (found: the library knows the book); the row is
\* created, up to the await of give_shelf.
ReturnBookInfo(t, found) ==
    /\ InCall(t, "return", "info")
    /\ LET r == dbt[t]
       IN  IF ~found \/ FindEmptyCell = 0
           THEN /\ Return(t, r, "fail")
                /\ UNCHANGED <<books, hist>>
           ELSE IF books[r.rfid].exists
           THEN /\ Return(t, r, "error")
                /\ UNCHANGED <<books, hist>>
           ELSE /\ books' = CreateBook(r.rfid) /\ Leaves
                /\ Suspend(t, [r EXCEPT !.pc = "mech", !.cell = FindEmptyCell,
                                        !.wrote = TRUE])
    /\ UNCHANGED <<mock, mechVars, cells, remote>>

\* give_shelf is over; on success the rows are written, up to the await of
\* the library.
ReturnBookMech(t, ok) ==
    /\ InCall(t, "return", "mech")
    /\ LET r == dbt[t]
       IN  IF ~ok
           THEN /\ Return(t, r, "fail")
                /\ UNCHANGED <<books, cells, hist>>
           ELSE /\ books' = [books EXCEPT ![r.rfid] =
                                [@ EXCEPT !.status = "returned", !.cell = r.cell,
                                          !.issued_to = ""]]
                /\ Leaves
                /\ cells' = [cells EXCEPT ![r.cell] =
                                [@ EXCEPT !.status = "occupied", !.book_rfid = r.rfid,
                                          !.needs_extraction = TRUE]]
                /\ Suspend(t, [r EXCEPT !.pc = "irbis", !.wrote = TRUE,
                                        !.committed = TRUE])
    /\ UNCHANGED <<mock, mechVars, remote>>

\* irbis.return_book answered; the call logs and returns success.
ReturnBookIrbis(t, w1, w2) ==
    /\ InCall(t, "return", "irbis")
    /\ LET r == dbt[t]
           a == RemoteReturn(remote[r.rfid], w1, w2)
       IN  /\ remote' = [remote EXCEPT ![r.rfid] = a.rem]
           /\ Return(t, [r EXCEPT !.irbis_ok = a.ok,
                                  !.logged = (IF a.ok THEN {} ELSE {"WARNING"})
                                             \cup {"INFO"}],
                     "ok")
    /\ UNCHANGED <<mock, mechVars, hist, books, cells>>

\* ------------------------------------------------------------------- load_book
\* LoadService.load_book up to its first await (titled: the request carries a
\* title; cid: the cell it names, 0 for none).
LoadBookBegin(t, b, titled, cid) ==
    /\ CallFree(t)
    /\ LET r == [IdleCall EXCEPT !.kind = "load", !.rfid = b, !.cell = cid]
       IN  IF books[b].exists
           THEN /\ Suspend(t, [r EXCEPT !.pc = "verify"])
                /\ UNCHANGED <<books, hist>>
           ELSE IF titled
           THEN /\ books' = CreateBook(b) /\ Leaves
                /\ Suspend(t, [r EXCEPT !.pc = "verify", !.wrote = TRUE])
           ELSE /\ Suspend(t, [r EXCEPT !.pc = "info"])
                /\ UNCHANGED <<books, hist>>
    /\ UNCHANGED <<mock, mechVars, cells, remote>>

\* get_book_info answered; the row is created, up to the await of the
\* verification.
LoadBookInfo(t, found) ==
    /\ InCall(t, "load", "info")
    /\ LET r == dbt[t]
       IN  IF ~found
           THEN /\ Return(t, r, "fail")
                /\ UNCHANGED <<books, hist>>
           ELSE IF books[r.rfid].exists
           THEN /\ Return(t, r, "error")
                /\ UNCHANGED <<books, hist>>
           ELSE /\ books' = CreateBook(r.rfid) /\ Leaves
                /\ Suspend(t, [r EXCEPT !.pc = "verify", !.wrote = TRUE])
    /\ UNCHANGED <<mock, mechVars, cells, remote>>

\* verify_book_for_loading answered (warn: with a warning); the cell is
\* chosen, up to the await of give_shelf.
LoadBookVerify(t, warn) ==
    /\ InCall(t, "load", "verify")
    /\ LET r == [dbt[t] EXCEPT !.logged = IF warn THEN {"WARNING"} ELSE {}]
           c == IF r.cell # 0
                THEN (IF cells[r.cell].status = "empty" THEN r.cell ELSE 0)
                ELSE FindEmptyCell
       IN  IF c = 0
           THEN Return(t, r, "fail")
           ELSE Suspend(t, [r EXCEPT !.pc = "mech", !.cell = c])
    /\ UNCHANGED <<mock, mechVars, hist, books, cells, remote>>

\* give_shelf is over; on success the rows are written and the call returns.
LoadBookMech(t, ok) ==
    /\ InCall(t, "load", "mech")
    /\ LET r == dbt[t]
       IN  IF ~ok
           THEN /\ Return(t, r, "fail")
                /\ UNCHANGED <<books, cells, hist>>
           ELSE /\ books' = [books EXCEPT ![r.rfid] =
                                [@ EXCEPT !.status = "in_cabinet", !.cell = r.cell]]
                /\ Leaves
                /\ cells' = [cells EXCEPT ![r.cell] =
                                [@ EXCEPT !.status = "occupied", !.book_rfid = r.rfid]]
                /\ Return(t, [r EXCEPT !.wrote = TRUE,
                                       !.logged = @ \cup {"INFO"}], "ok")
    /\ UNCHANGED <<mock, mechVars, remote>>

\* ---------------------------------------------------------------- extract_book
\* UnloadService.extract_book up to its first await.
ExtractBookBegin(t, c) ==
    /\ CallFree(t)
    /\ LET r == [IdleCall EXCEPT !.kind = "extract", !.cell = c,
                                 !.rfid = cells[c].book_rfid]
       IN  IF cells[c].status # "occupied"
           THEN Return(t, r, "fail")
           ELSE Suspend(t, [r EXCEPT !.pc = "mech"])
    /\ UNCHANGED <<mock, mechVars, hist, books, cells, remote>>

\* take_shelf, wait_for_user and give_shelf are over (ok: take_shelf
\* succeeded); on success the rows are written and the call returns.
ExtractBookMech(t, ok) ==
    /\ InCall(t, "extract", "mech")
    /\ LET r == dbt[t]
       IN  IF ~ok
           THEN /\ Return(t, r, "fail")
                /\ UNCHANGED <<books, cells, hist>>
           ELSE /\ books' = IF r.rfid # "" /\ books[r.rfid].exists
                            THEN [books EXCEPT ![r.rfid] =
                                    [@ EXCEPT !.status = "extracted", !.cell = 0]]
                            ELSE books
                /\ Leaves
                /\ cells' = [cells EXCEPT ![r.cell] =
                                [@ EXCEPT !.status = "empty", !.book_rfid = "",
                                          !.reserved_for = "",
                                          !.needs_extraction = FALSE]]
                /\ Return(t, [r EXCEPT !.wrote = TRUE,
                                       !.logged = {"INFO"}], "ok")
    /\ UNCHANGED <<mock, mechVars, remote>>

\* UnloadService.run_inventory (scan_rfid as by default): all cells are read
\* and the journal written, up to the await of take_shelf on the first cell.
RunInventory(t) ==
    /\ CallFree(t)
    /\ Suspend(t, [IdleCall EXCEPT !.kind = "inventory", !.logged = {"INFO"},
                                   !.pc = "mech", !.cell = 1])
    /\ UNCHANGED <<mock, mechVars, hist, books, cells, remote>>

\* take_shelf on the cell is over (ok: it succeeded, the tags were read and
\* give_shelf awaited): the next cell of the list, with its take_shelf, or
\* the summary and the return.  Only the journal is written.
RunInventoryShelf(t, ok) ==
    /\ InCall(t, "inventory", "mech")
    /\ LET r == [dbt[t] EXCEPT !.errors = @ \/ ~ok]
       IN  IF r.cell < NumCells
           THEN Suspend(t, [r EXCEPT !.cell = @ + 1])
           ELSE Return(t, r, IF r.errors THEN "fail" ELSE "ok")
    /\ UNCHANGED <<mock, mechVars, hist, books, cells, remote>>

\* ----------------------------------------------------------------- calibration
NumColumns == 3
NumRows == 21

\* Calibration writes one behaviour follows.
MaxCalOps == 3

\* A calibration document. has: its keys (positions.x and positions.y apart,
\* "version" standing for what save() adds); a section that is not there holds
\* what validate reads for it: no positions, no direction (0), no speed (0),
\* no servo angle (-1), no grab object.
DocKeys == {"x", "y", "kinematics", "speeds", "servos", "grab_front", "grab_back",
            "blocked_cells"}

NoDoc ==
    [has |-> {}, x |-> << >>, y |-> << >>, kinematics |-> <<0, 0, 0, 0>>,
     speeds |-> <<0, 0, 0>>, servos |-> <<-1, -1, -1, -1>>,
     grab_front |-> << >>, grab_back |-> << >>, blocked_cells |-> {}]

\* Calibration._default_data; a blocked cell is <<side, col, row>>.
DefaultBlocked ==
    {<<"front", 1, r>> : r \in 7..18}
        \cup {<<"back", 0, 19>>, <<"back", 0, 20>>, <<"back", 1, 19>>,
              <<"back", 1, 20>>, <<"back", 2, 20>>}

DefaultData ==
    [has |-> DocKeys \cup {"version"},
     x |-> <<1891, 6392, 10894>>,
     y |-> [i \in 1..NumRows |-> (i - 1) * 423],
     kinematics |-> <<1, -1, 1, 1>>,
     speeds |-> <<4000, 2000, 8000>>,
     servos |-> <<0, 95, 0, 95>>,
     grab_front |-> <<1900, 1500, 3100>>,
     grab_back |-> <<1900, 1500, 3100>>,
     blocked_cells |-> DefaultBlocked]

\* x_positions != sorted(x_positions) is an error.
Sorted(q) == \A i \in 1..(Len(q) - 1) : q[i] <= q[i + 1]

\* The rules of Calibration.validate on the document v: no error is added.
\* A value above 15000 adds a warning for positions.x and nothing for
\* positions.y.
NoErrors(v) ==
    /\ Len(v.x) = NumColumns /\ (\A i \in 1..Len(v.x) : v.x[i] >= 0) /\ Sorted(v.x)
    /\ Len(v.y) = NumRows /\ (\A i \in 1..Len(v.y) : v.y[i] >= 0) /\ Sorted(v.y)
    /\ \A i \in 1..4 : v.kinematics[i] \in {-1, 1}
    /\ v.speeds[1] \in 1..10000 /\ v.speeds[2] \in 1..10000
    /\ v.speeds[3] \in 1..20000
    /\ \A i \in 1..4 : v.servos[i] \in 0..180
    /\ \A g \in {v.grab_front, v.grab_back} :
          Len(g) = 3 /\ \A i \in 1..3 : g[i] \in 0..10000

\* Calibration.validate(data) with cur the document in memory: an empty
\* dict is falsy, so the document in memory is validated in its place.
Validate(data, cur) == NoErrors(IF data.has = {} THEN cur ELSE data)

\* Calibration.save: timestamp and version are set and the document dumped.
Save(d) == [d EXCEPT !.has = @ \cup {"version"}]

\* The merge of update_with_validation: the keys of the payload replace those
\* of the document, the other keys stay.
Merged(cur, p) ==
    [k \in DOMAIN cur |->
        IF k = "has" THEN cur.has \cup p.has
        ELSE IF k \in p.has THEN p[k] ELSE cur[k]]

\* cal.data and cal.file: the document in memory and the one on disk.
\* cal.px, cal.py: the lists CoreXY and PathPlanner took at construction;
\* xlive / ylive: that list is still the one in the document in memory.
\* cal.last: the last call, its payload, its answer and the documents before.
NoCall == [op |-> "none", payload |-> NoDoc, accepted |-> FALSE,
           data |-> NoDoc, file |-> NoDoc]

InitCal ==
    [data |-> DefaultData, file |-> DefaultData,
     px |-> DefaultData.x, py |-> DefaultData.y, xlive |-> TRUE, ylive |-> TRUE,
     ops |-> 0, last |-> NoCall]

Called(op, p, ok) ==
    [op |-> op, payload |-> p, accepted |-> ok, data |-> cal.data, file |-> cal.file]

\* The document d becomes the one in memory and is saved; keepx / keepy: its
\* positions.x / positions.y list is the object that was there before.
Stored(d, keepx, keepy, call) ==
    [cal EXCEPT !.data = Save(d), !.file = Save(d),
                !.xlive = @ /\ keepx, !.ylive = @ /\ keepy,
                !.px = IF cal.xlive /\ keepx THEN d.x ELSE @,
                !.py = IF cal.ylive /\ keepy THEN d.y ELSE @,
                !.ops = @ + 1, !.last = call]

CalFree == cal.ops < MaxCalOps

\* Documents a request may carry.
Shifted == [DefaultData EXCEPT !.has = DocKeys, !.x = <<1900, 6400, 10900>>]
Payloads ==
    {NoDoc, Shifted,
     [Shifted EXCEPT !.y = [i \in 1..(NumRows - 1) |-> (i - 1) * 423]],
     [Shifted EXCEPT !.x = <<1900, 6400, 16000>>],
     [Shifted EXCEPT !.kinematics = <<1, 0, 1, 1>>],
     [NoDoc EXCEPT !.has = {"y"}, !.y = [i \in 1..NumRows |-> (i - 1) * 400]],
     [NoDoc EXCEPT !.has = {"x"}, !.x = <<6400, 1900, 10900>>],
     [NoDoc EXCEPT !.has = {"blocked_cells"}]}

\* The cells and step counts a request may name.
SomeCells == {<<"front", 1, 9>>, <<"front", 0, 0>>}
SomeSteps == {100, 16000}

\* Calibration.validate called on a payload (validate_only).
ValidateOnly(p) ==
    /\ CalFree
    /\ cal' = [cal EXCEPT !.ops = @ + 1,
                          !.last = Called("validate", p, Validate(p, cal.data))]
    /\ UNCHANGED <<mock, dbVars, unit, probe, periVars, motionVars>>

\* Calibration.import_json.
ImportJson(p) ==
    /\ CalFree
    /\ cal' = IF Validate(p, cal.data)
              THEN Stored(p, FALSE, FALSE, Called("import", p, TRUE))
              ELSE [cal EXCEPT !.ops = @ + 1, !.last = Called("import", p, FALSE)]
    /\ UNCHANGED <<mock, dbVars, unit, probe, periVars, motionVars>>

\* Calibration.update_with_validation.
UpdateWithValidation(p) ==
    /\ CalFree
    /\ cal' = IF Validate(Merged(cal.data, p), cal.data)
              THEN Stored(Merged(cal.data, p), "x" \notin p.has, "y" \notin p.has,
                          Called("update", p, TRUE))
              ELSE [cal EXCEPT !.ops = @ + 1, !.last = Called("update", p, FALSE)]
    /\ UNCHANGED <<mock, dbVars, unit, probe, periVars, motionVars>>

\* Calibration.reset.
Reset ==
    /\ CalFree
    /\ cal' = Stored(DefaultData, FALSE, FALSE, Called("reset", NoDoc, TRUE))
    /\ UNCHANGED <<mock, dbVars, unit, probe, periVars, motionVars>>

\* Calibration.set_position_x, as post_wizard_points10_save calls it with
\* the carriage position: the list is written in place.
SetPositionX(column, steps) ==
    /\ CalFree
    /\ column + 1 \in 1..Len(cal.data.x)
    /\ cal' = Stored([cal.data EXCEPT !.x[column + 1] = steps], TRUE, TRUE,
                     Called("set_position_x", NoDoc, TRUE))
    /\ UNCHANGED <<mock, dbVars, unit, probe, periVars, motionVars>>

\* Calibration.set_position_y.
SetPositionY(row, steps) ==
    /\ CalFree
    /\ row + 1 \in 1..Len(cal.data.y)
    /\ cal' = Stored([cal.data EXCEPT !.y[row + 1] = steps], TRUE, TRUE,
                     Called("set_position_y", NoDoc, TRUE))
    /\ UNCHANGED <<mock, dbVars, unit, probe, periVars, motionVars>>

\* Calibration.toggle_blocked_cell.
ToggleBlockedCell(c) ==
    /\ CalFree
    /\ cal' = Stored([cal.data EXCEPT
                        !.has = @ \cup {"blocked_cells"},
                        !.blocked_cells = IF c \in @ THEN @ \ {c} ELSE @ \cup {c}],
                     TRUE, TRUE, Called("toggle", NoDoc, TRUE))
    /\ UNCHANGED <<mock, dbVars, unit, probe, periVars, motionVars>>

\* CoreXY.cell_to_steps and PathPlanner.get_cell_position, both on the lists
\* taken at construction.
CellToSteps(x, y) ==
    << IF x < Len(cal.px) THEN cal.px[x + 1] ELSE 0,
       IF y < Len(cal.py) THEN cal.py[y + 1] ELSE 0 >>

\* ------------------------------------------------------- functions on their own
\* A call of one of the helper functions: which, on what, and what it gave.
NoUnit == [fn |-> "none", arg |-> << >>, out |-> << >>, done |-> FALSE]

ToCall(fn, arg) == [NoUnit EXCEPT !.fn = fn, !.arg = arg]

\* The function returns out.
Gives(out) == unit' = [unit EXCEPT !.out = out, !.done = TRUE]

Pending(fn) == unit.fn = fn /\ ~unit.done

\* No read of the sensor yet: the class of the last reads ("high": at or
\* above the upper threshold, "low": at or below the lower one, "band":
\* between them), how many of them in a row, and how often the debounced
\* state has changed.
NoReads == [cls |-> "none", run |-> 0, flips |-> 0]

\* ------------------------------------------------------------- CoreXY kinematics
\* Direction maps validation accepts, as <<x_plus_dir_a, x_plus_dir_b,
\* y_plus_dir_a, y_plus_dir_b>>, and the displacements tried.
KinMaps == {<<xa, xb, ya, yb>> : xa \in {-1, 1}, xb \in {-1, 1}, ya \in {-1, 1},
                                 yb \in {-1, 1}}
MaxDelta == 3
Deltas == (-MaxDelta)..MaxDelta

\* CoreXY.calculate_ab_steps with the map kin.
CalculateAbSteps(kin, dx, dy) ==
    <<dx * kin[1] + dy * kin[3], dx * kin[2] + dy * kin[4]>>

\* CoreXY.inverse_kinematics: floor division by 2.
InverseKinematics(ab) == <<(ab[1] - ab[2]) \div 2, (ab[1] + ab[2]) \div 2>>

\* inverse_kinematics(*calculate_ab_steps(dx, dy))
KinematicsRoundTrip ==
    /\ Pending("kinematics")
    /\ Gives(InverseKinematics(
                CalculateAbSteps(unit.arg.kin, unit.arg.dx, unit.arg.dy)))
    /\ UNCHANGED <<mock, dbVars, cal, probe, periVars, motionVars>>

\* ------------------------------------------------------ UID helpers on their own
\* A string is the sequence of its characters; None is a value no string equals.
None == <<"None">>
HexChars == <<"0", "1", "2", "3", "4", "5", "6", "7", "8", "9",
              "A", "B", "C", "D", "E", "F">>
IsHex(c) == \E i \in 1..16 : HexChars[i] = c
Upper(c) == CASE c = "a" -> "A" [] c = "b" -> "B" [] c = "c" -> "C"
              [] c = "d" -> "D" [] c = "e" -> "E" [] c = "f" -> "F"
              [] c = "x" -> "X" [] c = "z" -> "Z" [] OTHER -> c
IsSeparator(c) == c \in {" ", "-", ":"}
Drop(str, n) == SubSeq(str, n + 1, Len(str))

\* normalize_rfid: upper case, separators removed, a leading 0X dropped,
\* only hex characters kept; None for nothing left.
NormalizeRfid(rfid) ==
    IF rfid = None \/ rfid = << >> THEN None
    ELSE LET up == [i \in 1..Len(rfid) |-> Upper(rfid[i])]
             bare == SelectSeq(up, LAMBDA c : ~IsSeparator(c))
             body == IF Len(bare) >= 2 /\ bare[1] = "0" /\ bare[2] = "X"
                     THEN Drop(bare, 2) ELSE bare
             hex == SelectSeq(body, IsHex)
         IN  IF hex = << >> THEN None ELSE hex

RECURSIVE InsertEvery2(_, _)
InsertEvery2(hex_str, sep) ==
    IF Len(hex_str) <= 2 THEN hex_str
    ELSE SubSeq(hex_str, 1, 2) \o <<sep>> \o InsertEvery2(Drop(hex_str, 2), sep)

RECURSIVE ReverseByByte(_)
ReverseByByte(hex_str) ==
    IF Len(hex_str) <= 2 THEN hex_str
    ELSE ReverseByByte(Drop(hex_str, 2)) \o SubSeq(hex_str, 1, 2)

\* int(hex_only, 16) and str(n).
RECURSIVE IntOfHex(_)
IntOfHex(hex_str) ==
    IF hex_str = << >> THEN 0
    ELSE IntOfHex(SubSeq(hex_str, 1, Len(hex_str) - 1)) * 16
         + (CHOOSE d \in 0..15 : HexChars[d + 1] = hex_str[Len(hex_str)])

RECURSIVE StrOfInt(_)
StrOfInt(n) ==
    IF n < 10 THEN <<HexChars[n + 1]>>
    ELSE StrOfInt(n \div 10) \o <<HexChars[(n % 10) + 1]>>

RECURSIVE Zfill(_, _)
Zfill(str, width) == IF Len(str) >= width THEN str ELSE Zfill(<<"0">> \o str, width)

DEC_WIDTH == 10

MakeUidVariants(uid) ==
    LET hex_only == NormalizeRfid(uid)
        rev_hex == ReverseByByte(hex_only)
        dec_value == StrOfInt(IntOfHex(hex_only))
        rev_dec == StrOfInt(IntOfHex(rev_hex))
    IN  IF hex_only = None THEN (IF uid = << >> \/ uid = None THEN << >> ELSE <<uid>>)
        ELSE <<hex_only>>
             \o (IF Len(hex_only) >= 4
                 THEN <<InsertEvery2(hex_only, ":"), InsertEvery2(hex_only, "-")>>
                 ELSE << >>)
             \o (IF rev_hex # hex_only
                 THEN <<rev_hex, InsertEvery2(rev_hex, ":"), InsertEvery2(rev_hex, "-")>>
                 ELSE << >>)
             \o <<dec_value, Zfill(dec_value, DEC_WIDTH)>>
             \o (IF rev_hex # hex_only /\ rev_dec # dec_value
                 THEN <<rev_dec, Zfill(rev_dec, DEC_WIDTH)>>
                 ELSE << >>)

\* UIDs as readers and callers give them.
Uids == {<<"5">>, <<"1", "1">>, <<"A", "B">>, <<"1", "2", "A", "B">>,
         <<"a", "b", ":", "c", "d">>, <<"0", "x", "1", "2", "3", "4">>,
         <<"0", "4", "-", "A", "1", "-", "B", "2">>,
         <<" ", "1", "0", " ">>, <<"z">>, <<"-">>, << >>}

MakeUidVariantsCall ==
    /\ Pending("make_uid_variants")
    /\ Gives(MakeUidVariants(unit.arg.uid))
    /\ UNCHANGED <<mock, dbVars, cal, probe, periVars, motionVars>>

\* ------------------------------------------------------ motor driver on its own
\* Step counts extend_tray / retract_tray are called with (the range the
\* calibration rules admit for a grab count), and the count of a call
\* without one.
TraySteps == {0, 1, 1500, 3000, 10000}
DEFAULT_TRAY_STEPS == 3000

\* The pulses the loop of move_tray emits on TRAY_STEP: "steps or 3000" outside
\* mock mode, none in mock mode (given: the call carries a count).
TrayPulses(mock_mode, given, steps) ==
    IF mock_mode THEN 0
    ELSE IF given /\ steps # 0 THEN steps
    ELSE DEFAULT_TRAY_STEPS

\* Motors.move_tray on an idle driver.
MoveTrayPulses ==
    /\ Pending("move_tray")
    /\ Gives([ret |-> TRUE,
              pulses |-> TrayPulses(unit.arg.mock_mode, unit.arg.given, unit.arg.steps),
              tray |-> IF unit.arg.extend THEN 1 ELSE 0])
    /\ UNCHANGED <<mock, dbVars, cal, probe, periVars, motionVars>>

\* Motors.move_xy on an idle driver outside mock mode, dx and dy being the
\* distance to the target: the counts and DIR levels of the two motors and
\* the passes of the pulse loop.
MoveXyCounts ==
    /\ Pending("move_xy")
    /\ LET steps_a == StepsA(unit.arg.dx, unit.arg.dy)
           steps_b == StepsB(unit.arg.dx, unit.arg.dy)
       IN  Gives([steps_a |-> steps_a, steps_b |-> steps_b,
                  dir_a |-> DirOf(steps_a), dir_b |-> DirOf(steps_b),
                  max_steps |-> Max2(Abs(steps_a), Abs(steps_b))])
    /\ UNCHANGED <<mock, dbVars, cal, probe, periVars, motionVars>>

\* ------------------------------------------------------------------ GPIO manager
\* The pins set up as outputs (Motors.__init__, Shutters.__init__).
OutPins == {"MOTOR_A_STEP", "MOTOR_A_DIR", "MOTOR_B_STEP", "MOTOR_B_DIR",
            "TRAY_STEP", "TRAY_DIR", "SHUTTER_OUTER", "SHUTTER_INNER"}
MaxCleanups == 2

\* GPIOManager.__init__ and the setup_output calls: every output at 0, the
\* pigpio link open outside mock mode.
InitGpio(mock_mode) ==
    [level |-> [pin \in OutPins |-> 0], link |-> ~mock_mode, cleanups |-> 0]

\* GPIOManager.write(pin, value), by a driver whose link is usable.
GpioWrite(pin, value) ==
    /\ mock \/ gpio.link
    /\ gpio.level[pin] # value
    /\ gpio' = [gpio EXCEPT !.level[pin] = value]
    /\ UNCHANGED <<mock, dbVars, cal, unit, probe, reader, motionVars>>

\* GPIOManager.cleanup(): pi.stop() outside mock mode, which closes the link
\* to the daemon; no pin is written.
GpioCleanup ==
    /\ gpio.cleanups < MaxCleanups
    /\ gpio' = [gpio EXCEPT !.link = FALSE, !.cleanups = @ + 1]
    /\ UNCHANGED <<mock, dbVars, cal, unit, probe, reader, motionVars>>

\* ------------------------------------------------------------------ card reader
MaxLoops == 2
StartupHandlers == {"main", "api"}

\* UnifiedCardReader.__init__: nothing available, not running; nfc and uhf
\* count the polling loops alive, ran the start-up handlers that have run.
InitReader ==
    [running |-> FALSE, nfc_available |-> FALSE, uhf_available |-> FALSE,
     nfc |-> 0, uhf |-> 0, ran |-> {}]

\* The reader after start(): _running set, one loop task per available reader.
Started(rd) ==
    [rd EXCEPT !.running = TRUE,
               !.nfc = IF rd.nfc_available THEN @ + 1 ELSE @,
               !.uhf = IF rd.uhf_available THEN @ + 1 ELSE @]

LoopsFit(rd) == rd.nfc < MaxLoops /\ rd.uhf < MaxLoops

\* main.start_card_polling / api_routes.start_card_readers, both registered
\* on_startup: configure, connect (nfc_ok, uhf_ok: what the hardware answers;
\* mock mode answers both), start in a background task if one is connected.
StartCardReaders(h, nfc_ok, uhf_ok) ==
    /\ h \notin reader.ran
    /\ LoopsFit(reader)
    /\ LET n == mock \/ nfc_ok
           u == mock \/ uhf_ok
           rd == [reader EXCEPT !.ran = @ \cup {h},
                                !.nfc_available = @ \/ n,
                                !.uhf_available = @ \/ u]
       IN  reader' = IF n \/ u THEN Started(rd) ELSE rd
    /\ UNCHANGED <<mock, dbVars, cal, unit, probe, gpio, motionVars>>

\* UnifiedCardReader.start() called on its own.
ReaderStart ==
    /\ LoopsFit(reader)
    /\ reader' = Started(reader)
    /\ reader' # reader
    /\ UNCHANGED <<mock, dbVars, cal, unit, probe, gpio, motionVars>>

\* UnifiedCardReader.stop()
ReaderStop ==
    /\ reader.running
    /\ reader' = [reader EXCEPT !.running = FALSE]
    /\ UNCHANGED <<mock, dbVars, cal, unit, probe, gpio, motionVars>>

\* A polling loop wakes from its sleep and finds _running cleared: it ends.
LoopEnds(kind) ==
    /\ ~reader.running
    /\ reader[kind] > 0
    /\ reader' = [reader EXCEPT ![kind] = @ - 1]
    /\ UNCHANGED <<mock, dbVars, cal, unit, probe, gpio, motionVars>>

\* ----------------------------------------------------- sensor filter on its own
\* Percentages a read can give (_read_percent counts 50 samples, so the only
\* value between the thresholds is 96), and the sensors read.
ReadPercents == {0, 94, 96, 98, 100}
ProbeSensors == {"x_begin", "tray_end"}
MaxFlips == 2

ClassOf(percent) ==
    IF percent >= SENSOR_THRESHOLD_HIGH THEN "high"
    ELSE IF percent <= SENSOR_THRESHOLD_LOW THEN "low"
    ELSE "band"

\* Sensors.is_triggered(sensor) with the read giving percent.
SensorRead(sensor, percent) ==
    /\ filt' = IsTriggered(filt, sensor, percent)
    /\ probe' = [probe EXCEPT ![sensor] =
                    [cls |-> ClassOf(percent),
                     run |-> IF ClassOf(percent) # @.cls THEN 1
                             ELSE IF @.run < SENSOR_DEBOUNCE THEN @.run + 1
                             ELSE @.run,
                     flips |-> IF filt'[sensor].state # filt[sensor].state
                                  /\ @.flips < MaxFlips
                               THEN @.flips + 1 ELSE @.flips]]
    /\ UNCHANGED <<mock, dbVars, cal, unit, periVars, is_moving, position, dir, mv, ret,
                   stop_inflight, alg_state, current_operation, stop_requested,
                   stop_sticky, lock, shutter, task, started, tray_at>>

\* ---------------------------------------------------------- plan_path on its own
\* Carriage and cell coordinates tried, in motor steps.
PlanXs == {-4999, 0, 300, 600, 2500, 6392, 10894}
PlanYs == {-4999, 0, 100, 600, 3999, 8460}
PlanPoints == {<<x, y>> : x \in PlanXs, y \in PlanYs}

\* plan_path(start, end)
PlanPathCall ==
    /\ Pending("plan_path")
    /\ Gives(PlanPath(unit.arg.start, unit.arg.end))
    /\ UNCHANGED <<mock, dbVars, cal, probe, periVars, motionVars>>

\* ------------------------------------------------------------ specifications
NewFilter == [state |-> FALSE, pending |-> "None", counter |-> 0]

InitRest ==
    /\ mock \in BOOLEAN
    /\ is_moving = FALSE
    /\ position = [x |-> 0, y |-> 0, tray |-> 0]
    /\ dir = [a |-> 0, b |-> 0, tray |-> 0]
    /\ mv = [t \in Tasks |-> NoMove]
    /\ ret = [t \in Tasks |-> "none"]
    /\ stop_inflight = [t \in Tasks |-> FALSE]
    /\ alg_state = "idle"
    /\ current_operation = "None"
    /\ stop_requested = FALSE
    /\ stop_sticky = FALSE
    /\ filt = [s \in Sensors |-> NewFilter]
    /\ lock = [l \in {"lock1", "lock2"} |-> "closed"]
    /\ shutter = [h \in {"outer", "inner"} |-> "closed"]
    /\ task = [t \in Tasks |-> IdleTask]
    /\ started = 0
    /\ tray_at \in (IF mock THEN {"begin"} ELSE {"begin", "mid", "end"})
    /\ \E res \in {"", "U1"} :
           /\ books = InitBooks(res)
           /\ cells = [InitCells EXCEPT ![1].reserved_for = res]
    /\ dbt = [t \in Tasks |-> IdleCall]
    /\ remote = [b \in Rfids |-> NoLoan]
    /\ trail = << >>
    /\ cal = InitCal
    /\ probe = [s \in Sensors |-> NoReads]
    /\ hist = [b \in Rfids |-> {}]
    /\ gpio = InitGpio(mock)
    /\ reader = InitReader

Init == InitRest /\ unit = NoUnit

\* The motor driver under direct calls.
NextMotors ==
    \/ \E t \in Tasks, tx \in XYTargets, ty \in XYTargets : MoveXYCall(t, tx, ty)
    \/ \E t \in Tasks, ext \in BOOLEAN : MoveTrayCall(t, ext)
    \/ \E t \in Tasks : MoveReturn(t)
    \/ MotorsStop

SpecMotors == Init /\ [][NextMotors]_vars

\* One caller's next step in a transaction or in the algorithm it runs.
Request(t, cs) ==
    \/ \E c \in cs : IssueStart(t, c)
    \/ \E c \in cs : ExtractStart(t, c)
    \/ \E c \in cs : ReturnStart(t, c)
    \/ \E c \in cs : LoadStart(t, c)
    \/ InitStart(t)

Continue(t) ==
    \/ \E w \in BOOLEAN : LoadVerified(t, w)
    \/ UserWaitDone(t)
    \/ \E ok \in BOOLEAN : IrbisDone(t, ok)

AlgStep(t) ==
    \/ StepTrayBegin(t)
    \/ StepTrayEnd(t)
    \/ StepLock(t)
    \/ StepShutter(t)
    \/ StepMove(t)
    \/ StepHome(t)

\* The transaction services and the motion algorithms they run, requests
\* arriving one after the other from a single caller.
Solo == {1}

NextAlg ==
    \/ \E t \in Solo : Request(t, CellsUsed)
    \/ \E t \in Solo : Continue(t)
    \/ \E t \in Solo : AlgStep(t)
    \/ AlgStop

SpecAlg == Init /\ [][NextAlg]_vars

\* The services under requests from concurrent callers (issue, return and
\* init on one cell), in mock mode (the default of config.MOCK_MODE).
ConcCells == {<<"FRONT", 0, 0>>}

InitConc == Init /\ mock

NextConc ==
    \/ \E t \in Tasks, c \in ConcCells : IssueStart(t, c)
    \/ \E t \in Tasks, c \in ConcCells : ReturnStart(t, c)
    \/ \E t \in Tasks : InitStart(t)
    \/ \E t \in Tasks : UserWaitDone(t)
    \/ \E t \in Tasks, ok \in BOOLEAN : IrbisDone(t, ok)
    \/ \E t \in Tasks : AlgStep(t)

SpecConc == InitConc /\ [][NextConc]_vars

\* One caller's next step in a service call on the database.
DbRequest(t) ==
    \/ \E b \in Rfids, u \in Users : IssueBookBegin(t, b, u)
    \/ \E b \in Rfids : ReturnBookBegin(t, b)
    \/ \E b \in Rfids, titled \in BOOLEAN, cid \in 0..NumCells :
          LoadBookBegin(t, b, titled, cid)
    \/ \E c \in CellIds : ExtractBookBegin(t, c)
    \/ RunInventory(t)

DbContinue(t) ==
    \/ IssueBookInfo(t)
    \/ \E ok \in BOOLEAN : IssueBookMech(t, ok)
    \/ \E w1 \in BOOLEAN, w2 \in BOOLEAN : IssueBookIrbis(t, w1, w2)
    \/ \E found \in BOOLEAN : ReturnBookInfo(t, found)
    \/ \E ok \in BOOLEAN : ReturnBookMech(t, ok)
    \/ \E w1 \in BOOLEAN, w2 \in BOOLEAN : ReturnBookIrbis(t, w1, w2)
    \/ \E found \in BOOLEAN : LoadBookInfo(t, found)
    \/ \E warn \in BOOLEAN : LoadBookVerify(t, warn)
    \/ \E ok \in BOOLEAN : LoadBookMech(t, ok)
    \/ \E ok \in BOOLEAN : ExtractBookMech(t, ok)
    \/ \E ok \in BOOLEAN : RunInventoryShelf(t, ok)

\* The services over the database, called by concurrent requests.
NextDb == \E t \in Tasks : DbRequest(t) \/ DbContinue(t)

SpecDb == InitConc /\ [][NextDb]_vars

\* The calibration under the requests of the administrator.
NextCal ==
    \/ \E p \in Payloads : ValidateOnly(p)
    \/ \E p \in Payloads : ImportJson(p)
    \/ \E p \in Payloads : UpdateWithValidation(p)
    \/ Reset
    \/ \E column \in {0, 2}, steps \in SomeSteps : SetPositionX(column, steps)
    \/ \E row \in {0, 20}, steps \in SomeSteps : SetPositionY(row, steps)
    \/ \E c \in SomeCells : ToggleBlockedCell(c)

SpecCal == InitConc /\ [][NextCal]_vars

\* The sensor filter under any sequence of reads.
NextSensor == \E sensor \in ProbeSensors, percent \in ReadPercents :
                  SensorRead(sensor, percent)

SpecSensor == InitConc /\ [][NextSensor]_vars

\* The GPIO manager under writes of the drivers and teardown.
NextGpio ==
    \/ \E pin \in OutPins, value \in {0, 1} : GpioWrite(pin, value)
    \/ GpioCleanup

SpecGpio == Init /\ [][NextGpio]_vars

\* The card reader under the start-up handlers and start and stop calls.
NextReader ==
    \/ \E h \in StartupHandlers, nfc_ok \in BOOLEAN, uhf_ok \in BOOLEAN :
          StartCardReaders(h, nfc_ok, uhf_ok)
    \/ ReaderStart
    \/ ReaderStop
    \/ \E kind \in {"nfc", "uhf"} : LoopEnds(kind)

SpecReader == Init /\ [][NextReader]_vars

\* The helper functions, each called once on arguments drawn at the start.
UnitInputs ==
    {ToCall("kinematics", [kin |-> k, dx |-> dx, dy |-> dy]) :
        k \in KinMaps, dx \in Deltas, dy \in Deltas}
    \cup {ToCall("plan_path", [start |-> a, end |-> b]) :
             a \in PlanPoints, b \in PlanPoints}
    \cup {ToCall("make_uid_variants", [uid |-> u]) : u \in Uids}
    \cup {ToCall("move_tray", [mock_mode |-> m, extend |-> e, given |-> g, steps |-> n]) :
             m \in BOOLEAN, e \in BOOLEAN, g \in BOOLEAN, n \in TraySteps}
    \cup {ToCall("move_xy", [kin |-> k, dx |-> dx, dy |-> dy]) :
             k \in KinMaps, dx \in Deltas, dy \in Deltas}

InitUnit == InitRest /\ mock /\ books = InitBooks("") /\ unit \in UnitInputs

NextUnit ==
    \/ KinematicsRoundTrip
    \/ PlanPathCall
    \/ MakeUidVariantsCall
    \/ MoveTrayPulses
    \/ MoveXyCounts

SpecUnit == InitUnit /\ [][NextUnit]_vars

\* init_home alone, with an operator stop, under the scheduling of the event
\* loop: a coroutine that can resume is eventually resumed.
HomeStep == \E t \in Solo : StepTrayBegin(t) \/ StepTrayEnd(t) \/ StepHome(t)

NextHome ==
    \/ \E t \in Solo : InitStart(t)
    \/ \E t \in Solo : StepTrayBegin(t)
    \/ \E t \in Solo : StepTrayEnd(t)
    \/ \E t \in Solo : StepHome(t)
    \/ AlgStop

SpecHome == Init /\ [][NextHome]_vars /\ WF_vars(HomeStep)

\* ------------------------------------------------------------------- claims
ActiveTxn(t) == task[t].tpc \notin {"idle", "done"} /\ task[t].txn # "init"
ActiveAlg(t) == task[t].run
InFlight(t) == mv[t] # NoMove

\* C1: at most one transaction and at most one motion algorithm is active at
\* any time; in particular nothing else runs while a transaction waits for
\* the user.
C1_OneActive ==
    /\ Cardinality({t \in Tasks : ActiveTxn(t)}) <= 1
    /\ Cardinality({t \in Tasks : ActiveAlg(t)}) <= 1

\* C2: an algorithm that was running when stop was requested returns failure
\* and error code 11 has been emitted.
C2_StopReturnsFailure11 ==
    \A t \in Tasks :
        (task[t].stop_during /\ ~task[t].run)
            => (task[t].algret = "false" /\ 11 \in task[t].emitted)

\* C3: once stop has been requested the stop flag stays set until the next
\* init_home begins.
C3_StopFlagSticky == stop_sticky => stop_requested

\* C4: a move is rejected before a waypoint (code 10) only on a switch whose
\* filtered state is triggered.
C4_RejectOnFilteredState ==
    \A t \in Tasks :
        task[t].rej.phase = "pre" => filt[task[t].rej.sensor].state

\* C5: init_home always terminates.
C5_InitHomeTerminates ==
    \A t \in Solo :
        (task[t].run /\ task[t].alg = "INIT") ~> ~task[t].run

\* C6: outside mock mode, init_home returns success only after x_begin and
\* then y_begin asserted (read at or above the trigger threshold), with the
\* reported position (0, 0).
C6_HomeOnlyOnAssertedSwitch ==
    \A t \in Tasks :
        (~mock /\ task[t].alg = "INIT" /\ task[t].algret = "true")
            => /\ task[t].home_read.x >= SENSOR_THRESHOLD_HIGH
               /\ task[t].home_read.y >= SENSOR_THRESHOLD_HIGH

\* C7: at most one motion of the driver is in flight at any time.
C7_OneMotionInFlight == Cardinality({t \in Tasks : InFlight(t)}) <= 1

\* C8: a move that was in flight when stop() was called does not return true.
C8_StoppedMoveReturnsFalse ==
    \A t \in Tasks : (stop_inflight[t] /\ ~InFlight(t)) => ret[t] # "true"

\* C9: a transaction whose TAKE or GIVE returned failure ends with
\* success=false and has written a WARNING to the system log.
C9_FailureLoggedAndReturned ==
    \A t \in Tasks :
        (task[t].motion_failed /\ task[t].tpc = "done")
            => (task[t].result = "fail" /\ "WARNING" \in task[t].logged)

\* C10: after a tray phase failed (codes 20-23) the algorithm performs no
\* further latch, tray, shutter or XY action and does not return success.
C10_TrayFailureAborts ==
    \A t \in Tasks :
        task[t].tray_failed => (~task[t].acted_after /\ task[t].algret # "true")

\* C11: every issue call is all-or-nothing on the local rows: it returns
\* success with the book issued to the requesting user, without a cell, and
\* its former cell empty without a book, or it returns failure having changed
\* no row; and no issue is committed on a book that is already issued.
C11_IssueAllOrNothing ==
    \A t \in Tasks :
        /\ ~dbt[t].stale
        /\ (dbt[t].kind = "issue" /\ dbt[t].pc = "done")
              => \/ dbt[t].result = "ok" /\ dbt[t].row_ok
                 \/ dbt[t].result = "fail" /\ ~dbt[t].wrote

\* The last two calls were a successful issue of b and then a successful
\* return of b, each begun after the one before it ended.
IssuedThenReturned(b) ==
    LET n == Len(trail)
        is(i, e, k) == trail[i].ev = e /\ trail[i].kind = k /\ trail[i].rfid = b
    IN  /\ n >= 4
        /\ is(n - 3, "begin", "issue") /\ is(n - 2, "end", "issue") /\ trail[n - 2].ok
        /\ is(n - 1, "begin", "return") /\ is(n, "end", "return") /\ trail[n].ok

\* C12: after a successful issue of a book followed by the return of the same
\* book with nothing in between, the book is at status returned in a cell
\* that needs extraction, and the remote exemplar status is 0.
C12_IssueThenReturn ==
    \A b \in Rfids :
        IssuedThenReturned(b)
            => /\ books[b].status = "returned"
               /\ books[b].cell # 0
               /\ cells[books[b].cell].needs_extraction
               /\ cells[books[b].cell].book_rfid = b
               /\ remote[b].status = "0"

\* C13: in issue and return the remote workflow is called only after the
\* local book and cell rows are written, and when it answers, with a failure
\* or not, the local rows stay as written, a failure is logged as a WARNING,
\* and the call reports success.
C13_RemoteFailureKept ==
    /\ [](\A t \in Tasks : dbt[t].pc = "irbis" => dbt[t].committed)
    /\ [][\A t \in Tasks :
            (dbt[t].pc = "irbis" /\ dbt'[t].pc = "done")
                => /\ books' = books
                   /\ cells' = cells
                   /\ dbt'[t].result = "ok"
                   /\ (~dbt'[t].irbis_ok <=> "WARNING" \in dbt'[t].logged)]_vars

\* An issue and a return have each come back after the library refused.
C13_Witness ==
    /\ \E t \in Tasks : /\ dbt[t].kind = "return" /\ dbt[t].pc = "done"
                        /\ ~dbt[t].irbis_ok /\ dbt[t].result = "ok"
                        /\ "WARNING" \in dbt[t].logged
                        /\ books[dbt[t].rfid].status = "returned"
    /\ \E i \in 1..Len(trail) : trail[i].kind = "issue" /\ trail[i].ok
    /\ \E b \in Rfids : remote[b].status = "0" /\ remote[b].loan # ""

\* C14: at most one cell row references any given book RFID.
C14_OneCellPerBook ==
    \A b \in Rfids : Cardinality({c \in CellIds : cells[c].book_rfid = b}) <= 1

\* C15: a book row with status in_cabinet has a cell reference, and that
\* cell's book_rfid is the book's RFID.
C15_InCabinetHasCell ==
    \A b \in Rfids :
        (books[b].exists /\ books[b].status = "in_cabinet")
            => /\ books[b].cell # 0
               /\ cells[books[b].cell].book_rfid = b

\* C16: the blocked set is the configured one and contains the window cell
\* (FRONT, 1, 9); no operation adds a cell to it or removes one, and no
\* blocked cell changes status or acquires a book.
C16_BlockedSetFixed ==
    /\ cal.data.blocked_cells = DefaultBlocked
    /\ <<"front", 1, 9>> \in cal.data.blocked_cells
    /\ \A c \in CellIds : InitCells[c].status = "blocked" => cells[c] = InitCells[c]

\* C17: after import_json or update_with_validation the stored calibration
\* is a document that passes the validation rules if the call accepted its
\* payload, and is the one stored before, in memory and on disk, if not.
C17_OnlyValidStored ==
    cal.last.op \in {"import", "update"}
        => IF cal.last.accepted
           THEN NoErrors(cal.data) /\ cal.file = cal.data
           ELSE cal.data = cal.last.data /\ cal.file = cal.last.file

\* C18: in every calibration state positions.x has length 3, positions.y has
\* length 21 and both arrays are non-decreasing.
C18_PositionsWellFormed ==
    /\ Len(cal.data.x) = NumColumns /\ Sorted(cal.data.x)
    /\ Len(cal.data.y) = NumRows /\ Sorted(cal.data.y)

\* C19: for every cell that is not blocked, cell_to_steps and
\* get_cell_position give (positions.x[x], positions.y[y]) of the calibration
\* currently stored.
C19_CachesFollowCalibration ==
    \A side \in {"front", "back"}, x \in 0..(NumColumns - 1), y \in 0..(NumRows - 1) :
        <<side, x, y>> \notin cal.data.blocked_cells
            => /\ x < Len(cal.data.x)
               /\ y < Len(cal.data.y)
               /\ CellToSteps(x, y) = <<cal.data.x[x + 1], cal.data.y[y + 1]>>

\* C20: validate reports a document valid only if positions.x has length 3,
\* positions.y has length 21, both are non-decreasing, every position lies
\* in [0, 15000] and every kinematics sign is -1 or 1.
C20_ValidateRules ==
    (cal.last.op = "validate" /\ cal.last.accepted)
        => LET d == cal.last.payload
           IN  /\ Len(d.x) = NumColumns /\ Sorted(d.x)
               /\ Len(d.y) = NumRows /\ Sorted(d.y)
               /\ \A i \in 1..Len(d.x) : d.x[i] \in 0..15000
               /\ \A i \in 1..Len(d.y) : d.y[i] \in 0..15000
               /\ \A i \in 1..4 : d.kinematics[i] \in {-1, 1}

\* C21: for every displacement and every direction map that validation
\* accepts, inverse_kinematics(calculate_ab_steps(dx, dy)) = (dx, dy).
C21_KinematicsRoundTrip ==
    (unit.fn = "kinematics" /\ unit.done) => unit.out = <<unit.arg.dx, unit.arg.dy>>

\* A finished plan_path call: its arguments, the waypoints with the start
\* point in front, and whether it took the L-shaped branch.
Planned == unit.fn = "plan_path" /\ unit.done
Route == << unit.arg.start >> \o unit.out
LShaped ==
    ~(/\ Abs(unit.arg.end[1] - unit.arg.start[1]) < MAX_DIAGONAL_STEP
      /\ Abs(unit.arg.end[2] - unit.arg.start[2]) < MAX_DIAGONAL_STEP)
ChangesX(i) == Route[i + 1][1] # Route[i][1]
ChangesY(i) == Route[i + 1][2] # Route[i][2]

\* C22: on an L-shaped path consecutive waypoints, counting the start point
\* and the end of each leg, are no more than 2000 steps apart.
C22_WaypointSpacing ==
    (Planned /\ LShaped)
        => \A i \in 1..(Len(Route) - 1) :
              /\ Abs(Route[i + 1][1] - Route[i][1]) <= WAYPOINT_SPACING
              /\ Abs(Route[i + 1][2] - Route[i][2]) <= WAYPOINT_SPACING

\* C23: when some delta is not below MAX_DIAGONAL_STEP the path is L-shaped
\* Y-first: every segment from the start point on changes exactly one
\* coordinate, and every Y-changing segment precedes every X-changing one.
C23_LShapedYFirst ==
    (Planned /\ LShaped)
        => /\ \A i \in 1..(Len(Route) - 1) : ChangesX(i) # ChangesY(i)
           /\ \A i, j \in 1..(Len(Route) - 1) : (ChangesY(i) /\ ChangesX(j)) => i < j

\* C24: the path ends at the end point and every waypoint lies within the
\* axis-aligned bounding box of the start and end points.
C24_EndsAtEndInBox ==
    Planned
        => /\ Len(unit.out) >= 1
           /\ unit.out[Len(unit.out)] = unit.arg.end
           /\ \A i \in 1..Len(unit.out) : \A k \in 1..2 :
                 LET lo == IF unit.arg.start[k] <= unit.arg.end[k]
                           THEN unit.arg.start[k] ELSE unit.arg.end[k]
                     hi == IF unit.arg.start[k] <= unit.arg.end[k]
                           THEN unit.arg.end[k] ELSE unit.arg.start[k]
                 IN  lo <= unit.out[i][k] /\ unit.out[i][k] <= hi

\* A path with intermediate waypoints on both legs, one of them at a
\* coordinate that int() had to truncate, below zero.
C24_Witness ==
    /\ Planned
    /\ \E i, j \in 1..(Len(unit.out) - 1) :
          /\ i < j
          /\ unit.out[i][1] = unit.arg.start[1] /\ unit.out[i][2] # unit.arg.end[2]
          /\ unit.out[j][2] = unit.arg.end[2] /\ unit.out[j][1] # unit.arg.end[1]
          /\ unit.out[i][2] < 0
          /\ (unit.arg.start[2] + unit.arg.end[2]) % 2 = 1

\* C25: the debounced state of a sensor changes only on a read that completes
\* at least SENSOR_DEBOUNCE consecutive reads of the new state's class (at or
\* above 98 % for triggered, at or below 95 % for clear); a shorter run, or
\* one interrupted by a read in the band or of the other class, changes
\* nothing.
C25_DebouncedChange ==
    [][\A s \in Sensors :
          filt'[s].state # filt[s].state
              => /\ probe'[s].run >= SENSOR_DEBOUNCE
                 /\ probe'[s].cls = IF filt'[s].state THEN "high" ELSE "low"]_vars

\* A sensor has gone to triggered and back to clear, and is in a run of
\* reads in the band.
C25_Witness ==
    \E s \in ProbeSensors :
        /\ probe[s].flips = MaxFlips /\ ~filt[s].state
        /\ probe[s].cls = "band" /\ probe[s].run >= 2

\* C26: every variant make_uid_variants generates normalizes to the same
\* value as the UID it was generated from.
C26_VariantsNormalizeAlike ==
    (unit.fn = "make_uid_variants" /\ unit.done)
        => \A i \in 1..Len(unit.out) :
               NormalizeRfid(unit.out[i]) = NormalizeRfid(unit.arg.uid)

\* C27: whenever the library's return workflow reports success, the
\* exemplar's status on the server is 0 and no open loan of that RFID is
\* left in a reader record.
C27_RemoteReturnClosed ==
    [][\A t \in Tasks :
          (InCall(t, "return", "irbis") /\ dbt'[t].pc = "done" /\ dbt'[t].irbis_ok)
              => remote'[dbt[t].rfid] = NoLoan]_vars

\* C29: the status transitions of a book are acyclic: over any sequence of
\* issue, return, load and extract calls no book is in a status its row
\* has left before.
C29_StatusNeverReentered ==
    \A b \in Rfids : books[b].exists => books[b].status \notin hist[b]

\* C30: when an issue or an extract returns success, the book's reserved_by
\* and its cell's reserved_for are both cleared.
C30_ReservationCleared ==
    [][\A t \in Tasks :
          (/\ dbt[t].pc # "done" /\ dbt'[t].pc = "done"
           /\ dbt'[t].kind \in {"issue", "extract"}
           /\ dbt'[t].result = "ok")
              => /\ cells'[dbt'[t].cell].reserved_for = ""
                 /\ dbt'[t].rfid # "" => books'[dbt'[t].rfid].reserved_by = ""]_vars

\* C28: a take_shelf or give_shelf that returns success has gone through its
\* steps one by one in the order of the program (13 for TAKE, 12 for GIVE,
\* the last of GIVE being the closing message), has performed each of them
\* (no tray phase of the run failed), and leaves the state waiting_user
\* after TAKE and idle after GIVE.
C28_StepsInOrder ==
    [][\A t \in Tasks :
          (task[t].run /\ task[t].alg \in {"TAKE", "GIVE"})
              => /\ task'[t].run => task'[t].pc \in {task[t].pc, task[t].pc + 1}
                 /\ (~task'[t].run /\ task'[t].algret = "true")
                       => /\ Last(task[t])
                          /\ alg_state' = ExitState(task[t].alg)
                          /\ ~task'[t].tray_failed]_vars

\* C31: outside mock mode extend_tray(n) and retract_tray(n) called with a
\* step count n emit exactly n pulses on TRAY_STEP.
C31_ExactTrayPulses ==
    (unit.fn = "move_tray" /\ unit.done /\ unit.arg.given /\ ~unit.arg.mock_mode)
        => unit.out.pulses = unit.arg.steps

\* C33: the step counts and directions move_xy drives on the two motors are
\* those of calculate_ab_steps under the sign map of the calibration, and
\* the pulse loop makes max(|steps_a|, |steps_b|) passes.
C33_MoveXyFollowsKinematics ==
    (unit.fn = "move_xy" /\ unit.done)
        => LET ab == CalculateAbSteps(unit.arg.kin, unit.arg.dx, unit.arg.dy)
           IN  /\ unit.out.steps_a = ab[1] /\ unit.out.steps_b = ab[2]
               /\ unit.out.dir_a = DirOf(ab[1]) /\ unit.out.dir_b = DirOf(ab[2])
               /\ unit.out.max_steps = Max2(Abs(ab[1]), Abs(ab[2]))

\* C32: after GPIO teardown has run, once or repeatedly, every configured
\* output pin is LOW.
C32_TeardownLeavesLow ==
    gpio.cleanups >= 1 => \A pin \in OutPins : gpio.level[pin] = 0

\* C39: at any time at most one NFC polling loop and at most one UHF polling
\* loop are running.
C39_OneLoopPerReader == reader.nfc <= 1 /\ reader.uhf <= 1

\* C34: in every run of init_home, take_shelf and give_shelf an XY move of
\* the carriage is started only with the tray retracted.
C34_MoveOnlyRetracted ==
    [][\A t \in Tasks :
          (task[t].run /\ mv[t].kind # "xy" /\ mv'[t].kind = "xy")
              => tray_at = "begin"]_vars

\* C35: no transaction runs take_shelf or give_shelf against a cell whose
\* status is blocked.
C35_NoShelfOnBlocked ==
    \A t \in Tasks : dbt[t].pc = "mech" => cells[dbt[t].cell].status # "blocked"

\* C36: a cell with needs_extraction set has status occupied and holds a
\* book, so that extract accepts every cell needing extraction.
C36_NeedsExtractionOccupied ==
    \A c \in CellIds :
        cells[c].needs_extraction
            => cells[c].status = "occupied" /\ cells[c].book_rfid # ""

\* C37: on the library server an exemplar has status 1 exactly when an open
\* loan entry of its RFID exists.
C37_StatusMatchesLoan ==
    \A b \in Rfids : remote[b].status = "1" <=> remote[b].loan # ""

\* C38: whenever no motion algorithm is executing, the algorithm state is
\* idle, waiting_user, error or stopped, never busy or homing.
C38_NoBusyAtRest ==
    (\A t \in Tasks : ~task[t].run)
        => alg_state \in {"idle", "waiting_user", "error", "stopped"}

\* C40: when a full-travel retraction (or extension) has brought the tray
\* onto its limit switch, the check after the drive finds the limit reached:
\* no code 23 (or 21) is emitted for it.
C40_LimitRecognised ==
    [][\A t \in Tasks :
          (/\ ~mock /\ Running(t, TrayOps) /\ Instr(t).arg = "full"
           /\ mv[t].kind = "tray" /\ mv'[t] = NoMove
           /\ tray_at' = IF Instr(t).op = "extend" THEN "end" ELSE "begin")
              => LET code == LimitFailCode(Instr(t).op = "extend")
                 IN  code \in task'[t].emitted => code \in task[t].emitted]_vars
====
